---------------------------- MODULE Spec2Model ----------------------------
(***************************************************************************)
(* Model of the choral-v2 preset generators                                *)
(*   scripts/generate_gender_presets.py  and  scripts/additional_presets.py *)
(*                                                                         *)
(* Each script builds its catalog at import time (one create_preset call   *)
(* per list element), then main() writes one artifact per catalog entry    *)
(* with save_preset.                                                       *)
(*                                                                         *)
(* Representation of Python values.  Every value carries its Python type   *)
(* in field t.  A str is a sequence of text chunks whose concatenation is  *)
(* the text; a str that undergoes character operations (the preset name)   *)
(* is spelled one character per chunk, every other str is one chunk.       *)
(* A float is held in tenths (every float literal of the two scripts has   *)
(* one decimal).  A dict is its insertion-ordered sequence of <<key,       *)
(* value>> pairs.                                                          *)
(***************************************************************************)
EXTENDS Integers, Sequences, FiniteSets, TLC

\* Longest synthetic catalog (number of list elements) of the generic runs.
MaxBatch == 2

\* Largest reading of the wall clock; the clock stops advancing there.
MaxClock == 1

(***************************************************************************)
(* Python values                                                           *)
(***************************************************************************)
PyNone == [t |-> "NoneType"]

PyBool(b) == [t |-> "bool", b |-> b]

PyInt(n) == [t |-> "int", i |-> n]

PyFloat(n) == [t |-> "float", tenths |-> n]

PyStr(chunks) == [t |-> "str", s |-> chunks]

PyList(xs) == [t |-> "list", items |-> xs]

PyTuple(xs) == [t |-> "tuple", items |-> xs]

PySet(xs) == [t |-> "set", members |-> xs]

PyDict(ps) == [t |-> "dict", pairs |-> ps]

\* A one-chunk str.
S(x) == PyStr(<<x>>)

IsNumber(v) == v.t \in {"int", "float", "bool"}

\* The numeric value of an int, float or bool, in tenths.
Tenths(v) ==
    CASE v.t = "int" -> 10 * v.i
      [] v.t = "float" -> v.tenths
      [] v.t = "bool" -> IF v.b THEN 10 ELSE 0

\* bool(v): Python truth value testing.
Truthy(v) ==
    CASE v.t = "NoneType" -> FALSE
      [] v.t \in {"int", "float", "bool"} -> Tenths(v) # 0
      [] v.t = "str" -> v.s # <<>>
      [] v.t \in {"list", "tuple"} -> v.items # <<>>
      [] v.t = "set" -> v.members # {}
      [] v.t = "dict" -> v.pairs # <<>>

\* a == b of Python.
RECURSIVE PyEq(_, _)
PyEq(a, b) ==
    IF IsNumber(a) /\ IsNumber(b) THEN Tenths(a) = Tenths(b)
    ELSE IF a.t # b.t THEN FALSE
    ELSE CASE a.t = "NoneType" -> TRUE
           [] a.t = "str" -> a.s = b.s
           [] a.t \in {"list", "tuple"} ->
                /\ Len(a.items) = Len(b.items)
                /\ \A k \in 1..Len(a.items) : PyEq(a.items[k], b.items[k])
           [] a.t = "set" ->
                /\ \A x \in a.members : \E y \in b.members : PyEq(x, y)
                /\ \A y \in b.members : \E x \in a.members : PyEq(x, y)
           [] a.t = "dict" ->
                /\ Len(a.pairs) = Len(b.pairs)
                /\ \A k \in 1..Len(a.pairs) :
                     \E m \in 1..Len(b.pairs) :
                        /\ PyEq(a.pairs[k][1], b.pairs[m][1])
                        /\ PyEq(a.pairs[k][2], b.pairs[m][2])

\* key in d
HasKey(d, k) == \E m \in 1..Len(d.pairs) : PyEq(d.pairs[m][1], k)

\* d[key]
Get(d, k) == d.pairs[CHOOSE m \in 1..Len(d.pairs) : PyEq(d.pairs[m][1], k)][2]

\* d[key] = value: an existing key keeps its position, a new key goes last.
Put(d, k, v) ==
    IF HasKey(d, k)
    THEN PyDict([m \in 1..Len(d.pairs) |->
                   IF PyEq(d.pairs[m][1], k) THEN <<d.pairs[m][1], v>> ELSE d.pairs[m]])
    ELSE PyDict(Append(d.pairs, <<k, v>>))

\* The keys of a dict whose keys are one-chunk strs, as a set of strings.
Keys(d) == {d.pairs[m][1].s[1] : m \in 1..Len(d.pairs)}


(***************************************************************************)
(* json.dump / json.load                                                    *)
(*                                                                         *)
(* A JSON document is held as its tree of tokens: every number and string  *)
(* token carries the text json.dump writes for it.  indent=2 only adds     *)
(* white space between tokens and is not part of the tree.                 *)
(***************************************************************************)
DigitChar(d) == <<"0", "1", "2", "3", "4", "5", "6", "7", "8", "9">>[d + 1]

DigitVal(c) == CHOOSE d \in 0..9 : DigitChar(d) = c

\* int.__repr__ of a natural number, one character per chunk.
RECURSIVE NatRepr(_)
NatRepr(n) == IF n < 10 THEN <<DigitChar(n)>>
              ELSE NatRepr(n \div 10) \o <<DigitChar(n % 10)>>

IntRepr(n) == IF n < 0 THEN <<"-">> \o NatRepr(-n) ELSE NatRepr(n)

\* float.__repr__ of a float held in tenths: always a '.' and one decimal.
FloatRepr(n) ==
    IF n < 0 THEN <<"-">> \o NatRepr((-n) \div 10) \o <<".", DigitChar((-n) % 10)>>
    ELSE NatRepr(n \div 10) \o <<".", DigitChar(n % 10)>>

RECURSIVE ParseNat(_)
ParseNat(cs) == IF cs = <<>> THEN 0
                ELSE 10 * ParseNat(SubSeq(cs, 1, Len(cs) - 1)) + DigitVal(cs[Len(cs)])

ParseInt(cs) == IF cs[1] = "-" THEN -ParseNat(Tail(cs)) ELSE ParseNat(cs)

\* The number a JSON number token denotes: a float when the text has a
\* fraction part, an int otherwise (json.scanner).
ParseNumber(cs) ==
    IF \E k \in 1..Len(cs) : cs[k] = "."
    THEN LET dot == CHOOSE k \in 1..Len(cs) : cs[k] = "."
             whole == SubSeq(cs, 1, dot - 1)
             neg == whole[1] = "-"
             mag == 10 * ParseNat(IF neg THEN Tail(whole) ELSE whole)
                       + ParseNat(SubSeq(cs, dot + 1, Len(cs)))
         IN PyFloat(IF neg THEN -mag ELSE mag)
    ELSE PyInt(ParseInt(cs))

\* Mutant of Escape: the backslash is written as it is.
RECURSIVE EscapeQuotesOnly(_)
EscapeQuotesOnly(s) ==
    IF s = <<>> THEN <<>>
    ELSE (IF Head(s) = "\"" THEN <<"\\", Head(s)>> ELSE <<Head(s)>>)
             \o EscapeQuotesOnly(Tail(s))

\* The text of a JSON string token: '"' and '\' are written with a
\* preceding backslash (json.encoder.py_encode_basestring_ascii).
RECURSIVE Escape(_)
Escape(s) ==
    IF s = <<>> THEN <<>>
    ELSE (IF Head(s) \in {"\"", "\\"} THEN <<"\\", Head(s)>> ELSE <<Head(s)>>)
             \o Escape(Tail(s))

\* The str a JSON string token denotes (json.decoder.py_scanstring).
RECURSIVE Unescape(_)
Unescape(s) ==
    IF s = <<>> THEN <<>>
    ELSE IF Head(s) = "\\" /\ Len(s) >= 2 THEN <<s[2]>> \o Unescape(Tail(Tail(s)))
    ELSE <<Head(s)>> \o Unescape(Tail(s))

JStr(text) == [j |-> "string", text |-> text]

JNum(text) == [j |-> "number", text |-> text]

JLit(word) == [j |-> "literal", word |-> word]

JArr(items) == [j |-> "array", items |-> items]

JObj(members) == [j |-> "object", members |-> members]

\* Whether json.dump accepts the value; a set, or a dict key that is not a
\* str, int, float, bool or None, raises TypeError.
RECURSIVE Serializable(_)
Serializable(v) ==
    CASE v.t \in {"NoneType", "bool", "int", "float", "str"} -> TRUE
      [] v.t \in {"list", "tuple"} ->
            \A k \in 1..Len(v.items) : Serializable(v.items[k])
      [] v.t = "dict" ->
            \A k \in 1..Len(v.pairs) :
               /\ v.pairs[k][1].t \in {"NoneType", "bool", "int", "float", "str"}
               /\ Serializable(v.pairs[k][2])
      [] v.t = "set" -> FALSE

\* The text of an object member name: a non-str key is written as the
\* text of its JSON value (json.encoder, _iterencode_dict).
KeyText(k) ==
    CASE k.t = "str" -> Escape(k.s)
      [] k.t = "bool" -> IF k.b THEN <<"true">> ELSE <<"false">>
      [] k.t = "NoneType" -> <<"null">>
      [] k.t = "int" -> IntRepr(k.i)
      [] k.t = "float" -> FloatRepr(k.tenths)

\* json.dump(value): the document written for a serializable value.
RECURSIVE JsonEncode(_)
JsonEncode(v) ==
    CASE v.t = "NoneType" -> JLit("null")
      [] v.t = "bool" -> JLit(IF v.b THEN "true" ELSE "false")
      [] v.t = "int" -> JNum(IntRepr(v.i))
      [] v.t = "float" -> JNum(FloatRepr(v.tenths))
      [] v.t = "str" -> JStr(Escape(v.s))
      [] v.t \in {"list", "tuple"} ->
            JArr([k \in 1..Len(v.items) |-> JsonEncode(v.items[k])])
      [] v.t = "dict" ->
            JObj([k \in 1..Len(v.pairs) |->
                    <<KeyText(v.pairs[k][1]), JsonEncode(v.pairs[k][2])>>])

\* dict(pairs): a repeated name keeps its first position and its last value.
RECURSIVE DictOf(_)
DictOf(ps) ==
    IF ps = <<>> THEN PyDict(<<>>)
    ELSE Put(DictOf(SubSeq(ps, 1, Len(ps) - 1)), ps[Len(ps)][1], ps[Len(ps)][2])

\* json.load(document): the value a document denotes.
RECURSIVE JsonDecode(_)
JsonDecode(d) ==
    CASE d.j = "literal" ->
            (CASE d.word = "null" -> PyNone
               [] d.word = "true" -> PyBool(TRUE)
               [] d.word = "false" -> PyBool(FALSE))
      [] d.j = "number" -> ParseNumber(d.text)
      [] d.j = "string" -> PyStr(Unescape(d.text))
      [] d.j = "array" -> PyList([k \in 1..Len(d.items) |-> JsonDecode(d.items[k])])
      [] d.j = "object" ->
            DictOf([k \in 1..Len(d.members) |->
                      <<PyStr(Unescape(d.members[k][1])), JsonDecode(d.members[k][2])>>])


(***************************************************************************)
(* create_preset                                                           *)
(*                                                                         *)
(* A call is held as the function from the names of the parameters the     *)
(* caller supplies (positionally or by keyword) to the values supplied.    *)
(***************************************************************************)
Required == {"name", "description", "language", "synthesis_method", "lyrics"}

Tunables ==
    {"num_voices", "formant_mix", "subharmonic_mix", "stereo_width",
     "vibrato_rate", "vibrato_depth", "reverb_mix", "reverb_size", "attack",
     "release", "pitch_variation", "timing_variation", "formant_variation",
     "breathiness", "warmth", "brightness"}

\* The parameters of create_preset of generate_gender_presets.py.
GenderParams == Required \cup Tunables \cup {"gender_balance", "voice_types", "tags"}

\* The parameters of create_preset of additional_presets.py.
AdditionalParams == Required \cup Tunables \cup {"tags"}

\* The default of a parameter that has one (the same in both scripts).
Default(p) ==
    CASE p = "num_voices" -> PyInt(8)
      [] p = "formant_mix" -> PyInt(80)
      [] p = "subharmonic_mix" -> PyInt(20)
      [] p = "stereo_width" -> PyInt(75)
      [] p = "vibrato_rate" -> PyFloat(60)
      [] p = "vibrato_depth" -> PyFloat(300)
      [] p = "reverb_mix" -> PyInt(25)
      [] p = "reverb_size" -> PyInt(50)
      [] p = "attack" -> PyInt(50)
      [] p = "release" -> PyInt(200)
      [] p = "pitch_variation" -> PyInt(10)
      [] p = "timing_variation" -> PyInt(5)
      [] p = "formant_variation" -> PyInt(15)
      [] p = "breathiness" -> PyInt(10)
      [] p = "warmth" -> PyInt(20)
      [] p = "brightness" -> PyInt(50)
      [] p \in {"gender_balance", "voice_types", "tags"} -> PyNone

\* Mutant of Arg: a keyword argument is ignored, the default is used.
ArgPositionalOnly(args, p) == IF p \in Required THEN args[p] ELSE Default(p)

\* The value a parameter is bound to in the body of the call.
Arg(args, p) == IF p \in DOMAIN args THEN args[p] ELSE Default(p)

\* Whether the call binds: every required parameter is supplied and no
\* parameter the function does not have (otherwise TypeError).
Binds(params, args) == Required \subseteq DOMAIN args /\ DOMAIN args \subseteq params

\* datetime.isoformat() of the clock reading n.
IsoFormat(n) == PyStr(<<"T">> \o NatRepr(n))

\* tags or []
TagsOrEmpty(tags) == IF Truthy(tags) THEN tags ELSE PyList(<<>>)

\* The "metadata" dict literal; now1 and now2 are the readings of the two
\* datetime.now() calls.
Metadata(args, category, now1, now2) ==
    PyDict(<< <<S("name"), Arg(args, "name")>>,
              <<S("author"), S("Bret Bouchard")>>,
              <<S("description"), Arg(args, "description")>>,
              <<S("version"), S("2.0.0")>>,
              <<S("category"), S(category)>>,
              <<S("tags"), TagsOrEmpty(Arg(args, "tags"))>>,
              <<S("created_date"), IsoFormat(now1)>>,
              <<S("modified_date"), IsoFormat(now2)>>,
              <<S("plugin_version"), S("2.0.0")>> >>)

\* The "parameters" dict literal.
Parameters(args) ==
    PyDict(<< <<S("num_voices"), Arg(args, "num_voices")>>,
              <<S("master_gain"), PyFloat(-30)>>,
              <<S("language"), Arg(args, "language")>>,
              <<S("lyrics"), Arg(args, "lyrics")>>,
              <<S("synthesis_method"), Arg(args, "synthesis_method")>>,
              <<S("formant_mix"), Arg(args, "formant_mix")>>,
              <<S("subharmonic_mix"), Arg(args, "subharmonic_mix")>>,
              <<S("stereo_width"), Arg(args, "stereo_width")>>,
              <<S("vibrato_rate"), Arg(args, "vibrato_rate")>>,
              <<S("vibrato_depth"), Arg(args, "vibrato_depth")>>,
              <<S("reverb_mix"), Arg(args, "reverb_mix")>>,
              <<S("reverb_size"), Arg(args, "reverb_size")>>,
              <<S("attack_time"), Arg(args, "attack")>>,
              <<S("release_time"), Arg(args, "release")>>,
              <<S("enable_anti_aliasing"), PyBool(TRUE)>>,
              <<S("enable_spectral_enhancement"), PyBool(TRUE)>>,
              <<S("oversampling_factor"), PyFloat(10)>>,
              <<S("pitch_variation"), Arg(args, "pitch_variation")>>,
              <<S("timing_variation"), Arg(args, "timing_variation")>>,
              <<S("formant_variation"), Arg(args, "formant_variation")>>,
              <<S("breathiness"), Arg(args, "breathiness")>>,
              <<S("warmth"), Arg(args, "warmth")>>,
              <<S("brightness"), Arg(args, "brightness")>> >>)

\* Mutant of Provenance: the record is left editable.
ProvenanceEditable ==
    << <<S("is_factory"), PyBool(TRUE)>>, <<S("is_read_only"), PyBool(FALSE)>> >>

\* The two provenance entries that close the preset dict literal.
Provenance ==
    << <<S("is_factory"), PyBool(TRUE)>>, <<S("is_read_only"), PyBool(TRUE)>> >>

\* Mutant of PresetLiteral: the warmth argument also fills brightness.
PresetLiteralWarmthLeaks(args, category, now1, now2) ==
    PyDict(<< <<S("metadata"), Metadata(args, category, now1, now2)>>,
              <<S("parameters"),
                Put(Parameters(args), S("brightness"), Arg(args, "warmth"))>> >>
           \o Provenance)

\* The preset dict literal common to both scripts.
PresetLiteral(args, category, now1, now2) ==
    PyDict(<< <<S("metadata"), Metadata(args, category, now1, now2)>>,
              <<S("parameters"), Parameters(args)>> >> \o Provenance)

\* preset["parameters"][key] = value
SetParameter(preset, key, value) ==
    Put(preset, S("parameters"), Put(Get(preset, S("parameters")), S(key), value))

\* if gender_balance: preset["parameters"]["gender_balance"] = gender_balance
AddGenderBalance(preset, gender_balance) ==
    IF Truthy(gender_balance)
    THEN SetParameter(preset, "gender_balance", gender_balance)
    ELSE preset

\* if voice_types: preset["parameters"]["voice_types"] = voice_types
AddVoiceTypes(preset, voice_types) ==
    IF Truthy(voice_types)
    THEN SetParameter(preset, "voice_types", voice_types)
    ELSE preset

\* Mutant of create_preset: the two map arguments are stored under each
\* other's key.
create_preset_maps_swapped(args, now1, now2) ==
    LET preset == PresetLiteral(args, "Gender", now1, now2)
        first == IF Truthy(Arg(args, "gender_balance"))
                 THEN SetParameter(preset, "voice_types", Arg(args, "gender_balance"))
                 ELSE preset
    IN IF Truthy(Arg(args, "voice_types"))
       THEN SetParameter(first, "gender_balance", Arg(args, "voice_types"))
       ELSE first

\* create_preset of generate_gender_presets.py, for a call that binds.
create_preset(args, now1, now2) ==
    AddVoiceTypes(AddGenderBalance(PresetLiteral(args, "Gender", now1, now2),
                                   Arg(args, "gender_balance")),
                  Arg(args, "voice_types"))

\* create_preset of additional_presets.py, for a call that binds.
additional_create_preset(args, now1, now2) ==
    PresetLiteral(args, "Factory", now1, now2)

(***************************************************************************)
(* save_preset (the same text in both scripts)                             *)
(***************************************************************************)
\* Mutant of Replace: only the first occurrence is replaced.
ReplaceFirst(s, old, new) ==
    IF \E k \in 1..Len(s) : s[k] = old
    THEN [s EXCEPT ![CHOOSE k \in 1..Len(s) :
                        s[k] = old /\ \A m \in 1..(k - 1) : s[m] # old] = new]
    ELSE s

\* str.replace(old, new) for a one-character old, on a str spelled one
\* character per chunk.
RECURSIVE Replace(_, _, _)
Replace(s, old, new) ==
    IF s = <<>> THEN <<>>
    ELSE <<IF Head(s) = old THEN new ELSE Head(s)>> \o Replace(Tail(s), old, new)

Extension == <<".", "c", "h", "o", "i", "r", "v", "2">>

\* Mutant of filename: the '/' of the name is kept.
filename_spaces_only(preset) ==
    Replace(Get(Get(preset, S("metadata")), S("name")).s, " ", "_") \o Extension

\* filename = f"{preset['metadata']['name'].replace(' ', '_').replace('/', '_')}.choirv2"
filename(preset) ==
    Replace(Replace(Get(Get(preset, S("metadata")), S("name")).s, " ", "_"), "/", "_")
        \o Extension

\* os.path.join(directory, filename): an absolute second component
\* discards the first.
os_path_join(directory, name) ==
    IF name # <<>> /\ name[1] = "/" THEN name
    ELSE IF directory = <<>> \/ directory[Len(directory)] = "/" THEN directory \o name
    ELSE directory \o <<"/">> \o name

\* The hard-coded output directory of both main functions (one chunk).
preset_dir == <<"/Users/bretbouchard/apps/schill/choir-v2-universal/presets/factory">>

\* Mutant of filepath: the name is used as it is.
filepath_of_raw_name(preset, directory) ==
    os_path_join(directory, Get(Get(preset, S("metadata")), S("name")).s \o Extension)

\* filepath = os.path.join(directory, filename)
filepath(preset, directory) == os_path_join(directory, filename(preset))

\* The line save_preset prints (without its leading check mark glyph).
CreatedLine(preset) ==
    <<"Created: ">> \o Get(Get(preset, S("metadata")), S("name")).s


(***************************************************************************)
(* The list literals of the scripts: one call of create_preset each        *)
(***************************************************************************)
\* additional_presets[0], additional_presets.py lines 76-98
additional_literal_1 ==
    [name |-> PyStr(<<"A", "r", "a", "b", "i", "c", " ", "1", ":", " ", "Q", "u", "r", "a", "n", " ", "R", "e", "c", "i", "t", "a", "t", "i", "o", "n">>),
     description |-> S("Traditional Quranic recitation style"),
     language |-> S("arabic"), synthesis_method |-> S("formant"),
     lyrics |-> S("ah eh ee oh oo"), num_voices |-> PyInt(4),
     formant_mix |-> PyInt(100), subharmonic_mix |-> PyInt(0),
     stereo_width |-> PyInt(50), vibrato_rate |-> PyFloat(50),
     vibrato_depth |-> PyInt(18), reverb_mix |-> PyInt(35),
     reverb_size |-> PyInt(60), attack |-> PyInt(70), release |-> PyInt(300),
     pitch_variation |-> PyInt(5), timing_variation |-> PyInt(3),
     breathiness |-> PyInt(12), warmth |-> PyInt(55),
     brightness |-> PyInt(45),
     tags |-> PyList(<<S("arabic"), S("quran"), S("recitation"), S("traditional"), S("islamic")>>)]

\* additional_presets[1], additional_presets.py lines 101-123
additional_literal_2 ==
    [name |-> PyStr(<<"H", "e", "b", "r", "e", "w", " ", "1", ":", " ", "S", "y", "n", "a", "g", "o", "g", "u", "e", " ", "C", "h", "a", "n", "t">>),
     description |-> S("Traditional Jewish synagogue chanting"),
     language |-> S("hebrew"), synthesis_method |-> S("formant"),
     lyrics |-> S("ah eh ee oh"), num_voices |-> PyInt(8),
     formant_mix |-> PyInt(98), subharmonic_mix |-> PyInt(2),
     stereo_width |-> PyInt(60), vibrato_rate |-> PyFloat(48),
     vibrato_depth |-> PyInt(16), reverb_mix |-> PyInt(32),
     reverb_size |-> PyInt(55), attack |-> PyInt(85), release |-> PyInt(320),
     pitch_variation |-> PyInt(6), timing_variation |-> PyInt(4),
     breathiness |-> PyInt(14), warmth |-> PyInt(52),
     brightness |-> PyInt(40),
     tags |-> PyList(<<S("hebrew"), S("synagogue"), S("jewish"), S("chant"), S("traditional")>>)]

\* additional_presets[2], additional_presets.py lines 126-148
additional_literal_3 ==
    [name |-> PyStr(<<"S", "a", "n", "s", "k", "r", "i", "t", " ", "1", ":", " ", "V", "e", "d", "i", "c", " ", "C", "h", "a", "n", "t">>),
     description |-> S("Ancient Vedic mantra chanting"),
     language |-> S("hindi"), synthesis_method |-> S("formant"),
     lyrics |-> S("ah eh ih oh oo"), num_voices |-> PyInt(6),
     formant_mix |-> PyInt(100), subharmonic_mix |-> PyInt(0),
     stereo_width |-> PyInt(55), vibrato_rate |-> PyFloat(45),
     vibrato_depth |-> PyInt(12), reverb_mix |-> PyInt(38),
     reverb_size |-> PyInt(65), attack |-> PyInt(95), release |-> PyInt(380),
     pitch_variation |-> PyInt(4), timing_variation |-> PyInt(3),
     breathiness |-> PyInt(16), warmth |-> PyInt(58),
     brightness |-> PyInt(38),
     tags |-> PyList(<<S("hindi"), S("sanskrit"), S("vedic"), S("chant"), S("mantra"), S("meditation")>>)]

\* additional_presets[3], additional_presets.py lines 151-173
additional_literal_4 ==
    [name |-> PyStr(<<"S", "p", "a", "n", "i", "s", "h", " ", "1", ":", " ", "F", "l", "a", "m", "e", "n", "c", "o", " ", "C", "h", "o", "i", "r">>),
     description |-> S("Traditional flamenco cantaor voices"),
     language |-> S("spanish"), synthesis_method |-> S("diphone"),
     lyrics |-> S("ah-eh ee-oh oh-ay"), num_voices |-> PyInt(6),
     formant_mix |-> PyInt(94), subharmonic_mix |-> PyInt(6),
     stereo_width |-> PyInt(68), vibrato_rate |-> PyFloat(72),
     vibrato_depth |-> PyInt(32), reverb_mix |-> PyInt(15),
     reverb_size |-> PyInt(30), attack |-> PyInt(20), release |-> PyInt(140),
     pitch_variation |-> PyInt(10), timing_variation |-> PyInt(5),
     breathiness |-> PyInt(8), warmth |-> PyInt(48),
     brightness |-> PyInt(65),
     tags |-> PyList(<<S("spanish"), S("flamenco"), S("cantaor"), S("traditional"), S("passionate")>>)]

\* additional_presets[4], additional_presets.py lines 176-198
additional_literal_5 ==
    [name |-> PyStr(<<"F", "r", "e", "n", "c", "h", " ", "1", ":", " ", "C", "h", "o", "r", "a", "l", "e", " ", "F", "r", "a", "n", "c", "a", "i", "s", "e">>),
     description |-> S("French romantic chorale style"),
     language |-> S("french"), synthesis_method |-> S("formant"),
     lyrics |-> S("ah eh ee oh oo"), num_voices |-> PyInt(24),
     formant_mix |-> PyInt(96), subharmonic_mix |-> PyInt(4),
     stereo_width |-> PyInt(78), vibrato_rate |-> PyFloat(58),
     vibrato_depth |-> PyInt(24), reverb_mix |-> PyInt(28),
     reverb_size |-> PyInt(48), attack |-> PyInt(48), release |-> PyInt(210),
     pitch_variation |-> PyInt(11), timing_variation |-> PyInt(5),
     breathiness |-> PyInt(11), warmth |-> PyInt(46),
     brightness |-> PyInt(58),
     tags |-> PyList(<<S("french"), S("chorale"), S("romantic"), S("ensemble")>>)]

\* additional_presets[5], additional_presets.py lines 201-223
additional_literal_6 ==
    [name |-> PyStr(<<"G", "e", "r", "m", "a", "n", " ", "1", ":", " ", "L", "i", "e", "d", "e", "r", " ", "C", "h", "o", "i", "r">>),
     description |-> S("German lied art song style"),
     language |-> S("german"), synthesis_method |-> S("diphone"),
     lyrics |-> S("ah-eh ee-oh oh-oo"), num_voices |-> PyInt(12),
     formant_mix |-> PyInt(93), subharmonic_mix |-> PyInt(7),
     stereo_width |-> PyInt(72), vibrato_rate |-> PyFloat(63),
     vibrato_depth |-> PyInt(26), reverb_mix |-> PyInt(22),
     reverb_size |-> PyInt(42), attack |-> PyInt(42), release |-> PyInt(190),
     pitch_variation |-> PyInt(9), timing_variation |-> PyInt(4),
     breathiness |-> PyInt(9), warmth |-> PyInt(44),
     brightness |-> PyInt(62),
     tags |-> PyList(<<S("german"), S("lieder"), S("art-song"), S("romantic")>>)]

\* additional_presets[6], additional_presets.py lines 226-248
additional_literal_7 ==
    [name |-> PyStr(<<"R", "u", "s", "s", "i", "a", "n", " ", "1", ":", " ", "O", "r", "t", "h", "o", "d", "o", "x", " ", "C", "h", "o", "i", "r">>),
     description |-> S("Russian Orthodox church choir"),
     language |-> S("russian"), synthesis_method |-> S("formant"),
     lyrics |-> S("ah eh ee oh oo"), num_voices |-> PyInt(16),
     formant_mix |-> PyInt(100), subharmonic_mix |-> PyInt(0),
     stereo_width |-> PyInt(65), vibrato_rate |-> PyFloat(42),
     vibrato_depth |-> PyInt(14), reverb_mix |-> PyInt(42),
     reverb_size |-> PyInt(75), attack |-> PyInt(90), release |-> PyInt(360),
     pitch_variation |-> PyInt(5), timing_variation |-> PyInt(3),
     breathiness |-> PyInt(10), warmth |-> PyInt(62),
     brightness |-> PyInt(38),
     tags |-> PyList(<<S("russian"), S("orthodox"), S("church"), S("choir"), S("traditional")>>)]

\* The elements of additional_presets, in the order of the list literal.
additional_literals ==
    <<additional_literal_1, additional_literal_2, additional_literal_3, additional_literal_4,
      additional_literal_5, additional_literal_6, additional_literal_7>>

\* male_presets[0], generate_gender_presets.py lines 87-111
male_literal_1 ==
    [name |-> PyStr(<<"M", "a", "l", "e", " ", "1", ":", " ", "B", "a", "s", "s">>),
     description |-> S("Deep male bass voice (F2-E4, 85-330 Hz)"),
     language |-> S("english"), synthesis_method |-> S("formant"),
     lyrics |-> S("oh oo ah"), num_voices |-> PyInt(4),
     formant_mix |-> PyInt(100), subharmonic_mix |-> PyInt(0),
     stereo_width |-> PyInt(60), vibrato_rate |-> PyFloat(45),
     vibrato_depth |-> PyInt(18), reverb_mix |-> PyInt(20),
     reverb_size |-> PyInt(40), attack |-> PyInt(80), release |-> PyInt(300),
     pitch_variation |-> PyInt(5), timing_variation |-> PyInt(3),
     formant_variation |-> PyInt(8), breathiness |-> PyInt(5),
     warmth |-> PyInt(70), brightness |-> PyInt(20),
     voice_types |-> PyDict(<<<<S("bass"), PyInt(100)>>>>),
     tags |-> PyList(<<S("male"), S("bass"), S("low"), S("deep"), S("choir")>>)]

\* male_presets[1], generate_gender_presets.py lines 114-138
male_literal_2 ==
    [name |-> PyStr(<<"M", "a", "l", "e", " ", "2", ":", " ", "B", "a", "r", "i", "t", "o", "n", "e">>),
     description |-> S("Male baritone voice (A2-F4, 110-350 Hz)"),
     language |-> S("english"), synthesis_method |-> S("formant"),
     lyrics |-> S("oh oo ah eh"), num_voices |-> PyInt(6),
     formant_mix |-> PyInt(100), subharmonic_mix |-> PyInt(0),
     stereo_width |-> PyInt(65), vibrato_rate |-> PyFloat(50),
     vibrato_depth |-> PyInt(22), reverb_mix |-> PyInt(22),
     reverb_size |-> PyInt(45), attack |-> PyInt(60), release |-> PyInt(250),
     pitch_variation |-> PyInt(8), timing_variation |-> PyInt(4),
     formant_variation |-> PyInt(10), breathiness |-> PyInt(8),
     warmth |-> PyInt(55), brightness |-> PyInt(35),
     voice_types |-> PyDict(<<<<S("baritone"), PyInt(100)>>>>),
     tags |-> PyList(<<S("male"), S("baritone"), S("medium-low"), S("versatile")>>)]

\* male_presets[2], generate_gender_presets.py lines 141-165
male_literal_3 ==
    [name |-> PyStr(<<"M", "a", "l", "e", " ", "3", ":", " ", "T", "e", "n", "o", "r">>),
     description |-> S("Male tenor voice (C3-C5, 130-520 Hz)"),
     language |-> S("english"), synthesis_method |-> S("formant"),
     lyrics |-> S("ah eh ee oh"), num_voices |-> PyInt(8),
     formant_mix |-> PyInt(100), subharmonic_mix |-> PyInt(0),
     stereo_width |-> PyInt(70), vibrato_rate |-> PyFloat(58),
     vibrato_depth |-> PyInt(26), reverb_mix |-> PyInt(25),
     reverb_size |-> PyInt(50), attack |-> PyInt(45), release |-> PyInt(200),
     pitch_variation |-> PyInt(10), timing_variation |-> PyInt(5),
     formant_variation |-> PyInt(12), breathiness |-> PyInt(10),
     warmth |-> PyInt(40), brightness |-> PyInt(50),
     voice_types |-> PyDict(<<<<S("tenor"), PyInt(100)>>>>),
     tags |-> PyList(<<S("male"), S("tenor"), S("high"), S("bright"), S("opera")>>)]

\* male_presets[3], generate_gender_presets.py lines 168-192
male_literal_4 ==
    [name |-> PyStr(<<"M", "a", "l", "e", " ", "4", ":", " ", "C", "o", "u", "n", "t", "e", "r", "t", "e", "n", "o", "r">>),
     description |-> S("Male countertenor (falsetto, G3-E5, 196-660 Hz)"),
     language |-> S("english"), synthesis_method |-> S("formant"),
     lyrics |-> S("ah eh ee oh oo"), num_voices |-> PyInt(4),
     formant_mix |-> PyInt(100), subharmonic_mix |-> PyInt(0),
     stereo_width |-> PyInt(75), vibrato_rate |-> PyFloat(65),
     vibrato_depth |-> PyInt(30), reverb_mix |-> PyInt(30),
     reverb_size |-> PyInt(55), attack |-> PyInt(40), release |-> PyInt(180),
     pitch_variation |-> PyInt(12), timing_variation |-> PyInt(6),
     formant_variation |-> PyInt(15), breathiness |-> PyInt(18),
     warmth |-> PyInt(35), brightness |-> PyInt(60),
     voice_types |-> PyDict(<<<<S("countertenor"), PyInt(100)>>>>),
     tags |-> PyList(<<S("male"), S("countertenor"), S("falsetto"), S("high"), S("opera")>>)]

\* male_presets[4], generate_gender_presets.py lines 195-223
male_literal_5 ==
    [name |-> PyStr(<<"M", "a", "l", "e", " ", "5", ":", " ", "S", "A", "T", "B", " ", "C", "h", "o", "i", "r">>),
     description |-> S("Traditional male SATB choir (Bass-Baritone-Tenor-Tenor)"),
     language |-> S("english"), synthesis_method |-> S("diphone"),
     lyrics |-> S("oh-ah ah-eh ee-oh"), num_voices |-> PyInt(12),
     formant_mix |-> PyInt(100), subharmonic_mix |-> PyInt(0),
     stereo_width |-> PyInt(80), vibrato_rate |-> PyFloat(55),
     vibrato_depth |-> PyInt(24), reverb_mix |-> PyInt(35),
     reverb_size |-> PyInt(65), attack |-> PyInt(55), release |-> PyInt(220),
     pitch_variation |-> PyInt(10), timing_variation |-> PyInt(5),
     formant_variation |-> PyInt(12), breathiness |-> PyInt(8),
     warmth |-> PyInt(50), brightness |-> PyInt(45),
     voice_types |-> PyDict(<<<<S("bass"), PyInt(25)>>, <<S("baritone"), PyInt(25)>>, <<S("tenor"), PyInt(50)>>>>),
     tags |-> PyList(<<S("male"), S("satb"), S("choir"), S("ensemble"), S("traditional")>>)]

\* male_presets[5], generate_gender_presets.py lines 226-249
male_literal_6 ==
    [name |-> PyStr(<<"M", "a", "l", "e", " ", "6", ":", " ", "G", "o", "s", "p", "e", "l", " ", "T", "e", "n", "o", "r">>),
     description |-> S("Soulful gospel tenor with bright timbre"),
     language |-> S("english"), synthesis_method |-> S("diphone"),
     lyrics |-> S("ah eh ee oh"), num_voices |-> PyInt(8),
     formant_mix |-> PyInt(95), subharmonic_mix |-> PyInt(5),
     stereo_width |-> PyInt(85), vibrato_rate |-> PyFloat(70),
     vibrato_depth |-> PyInt(35), reverb_mix |-> PyInt(28),
     reverb_size |-> PyInt(48), attack |-> PyInt(30), release |-> PyInt(170),
     pitch_variation |-> PyInt(15), timing_variation |-> PyInt(7),
     breathiness |-> PyInt(15), warmth |-> PyInt(45),
     brightness |-> PyInt(70),
     voice_types |-> PyDict(<<<<S("tenor"), PyInt(100)>>>>),
     tags |-> PyList(<<S("male"), S("gospel"), S("tenor"), S("soul"), S("bright")>>)]

\* male_presets[6], generate_gender_presets.py lines 252-275
male_literal_7 ==
    [name |-> PyStr(<<"M", "a", "l", "e", " ", "7", ":", " ", "P", "o", "p", " ", "B", "a", "r", "i", "t", "o", "n", "e">>),
     description |-> S("Modern pop baritone backing vocals"),
     language |-> S("english"), synthesis_method |-> S("diphone"),
     lyrics |-> S("oh ah eh"), num_voices |-> PyInt(6),
     formant_mix |-> PyInt(90), subharmonic_mix |-> PyInt(10),
     stereo_width |-> PyInt(70), vibrato_rate |-> PyFloat(62),
     vibrato_depth |-> PyInt(28), reverb_mix |-> PyInt(18),
     reverb_size |-> PyInt(35), attack |-> PyInt(25), release |-> PyInt(150),
     pitch_variation |-> PyInt(8), timing_variation |-> PyInt(4),
     breathiness |-> PyInt(8), warmth |-> PyInt(40),
     brightness |-> PyInt(60),
     voice_types |-> PyDict(<<<<S("baritone"), PyInt(100)>>>>),
     tags |-> PyList(<<S("male"), S("pop"), S("baritone"), S("backing-vocals"), S("modern")>>)]

\* male_presets[7], generate_gender_presets.py lines 278-301
male_literal_8 ==
    [name |-> PyStr(<<"M", "a", "l", "e", " ", "8", ":", " ", "R", "u", "s", "s", "i", "a", "n", " ", "B", "a", "s", "s">>),
     description |-> S("Deep Russian Orthodox bass (oktavist)"),
     language |-> S("russian"), synthesis_method |-> S("formant"),
     lyrics |-> S("oh oo"), num_voices |-> PyInt(6),
     formant_mix |-> PyInt(100), subharmonic_mix |-> PyInt(0),
     stereo_width |-> PyInt(55), vibrato_rate |-> PyFloat(40),
     vibrato_depth |-> PyInt(15), reverb_mix |-> PyInt(45),
     reverb_size |-> PyInt(80), attack |-> PyInt(100),
     release |-> PyInt(400), pitch_variation |-> PyInt(4),
     timing_variation |-> PyInt(2), breathiness |-> PyInt(5),
     warmth |-> PyInt(75), brightness |-> PyInt(15),
     voice_types |-> PyDict(<<<<S("bass"), PyInt(100)>>>>),
     tags |-> PyList(<<S("male"), S("bass"), S("russian"), S("orthodox"), S("deep"), S("octavist")>>)]

\* Mutant of male_literals: the first element was copied over the second.
male_literals_first_copied ==
    <<male_literal_1, male_literal_1, male_literal_3, male_literal_4,
      male_literal_5, male_literal_6, male_literal_7, male_literal_8>>

\* male_presets, generate_gender_presets.py lines 85-302
male_literals ==
    <<male_literal_1, male_literal_2, male_literal_3, male_literal_4,
      male_literal_5, male_literal_6, male_literal_7, male_literal_8>>

\* female_presets[0], generate_gender_presets.py lines 310-334
female_literal_1 ==
    [name |-> PyStr(<<"F", "e", "m", "a", "l", "e", " ", "1", ":", " ", "S", "o", "p", "r", "a", "n", "o">>),
     description |-> S("Female soprano voice (C4-C6, 260-1050 Hz)"),
     language |-> S("english"), synthesis_method |-> S("formant"),
     lyrics |-> S("ah eh ee oh oo"), num_voices |-> PyInt(8),
     formant_mix |-> PyInt(100), subharmonic_mix |-> PyInt(0),
     stereo_width |-> PyInt(75), vibrato_rate |-> PyFloat(68),
     vibrato_depth |-> PyInt(32), reverb_mix |-> PyInt(28),
     reverb_size |-> PyInt(52), attack |-> PyInt(40), release |-> PyInt(180),
     pitch_variation |-> PyInt(12), timing_variation |-> PyInt(6),
     formant_variation |-> PyInt(15), breathiness |-> PyInt(12),
     warmth |-> PyInt(30), brightness |-> PyInt(70),
     voice_types |-> PyDict(<<<<S("soprano"), PyInt(100)>>>>),
     tags |-> PyList(<<S("female"), S("soprano"), S("high"), S("bright"), S("opera")>>)]

\* female_presets[1], generate_gender_presets.py lines 337-361
female_literal_2 ==
    [name |-> PyStr(<<"F", "e", "m", "a", "l", "e", " ", "2", ":", " ", "M", "e", "z", "z", "o", "-", "S", "o", "p", "r", "a", "n", "o">>),
     description |-> S("Female mezzo-soprano (A3-A5, 220-880 Hz)"),
     language |-> S("english"), synthesis_method |-> S("formant"),
     lyrics |-> S("ah eh ee oh"), num_voices |-> PyInt(6),
     formant_mix |-> PyInt(100), subharmonic_mix |-> PyInt(0),
     stereo_width |-> PyInt(72), vibrato_rate |-> PyFloat(64),
     vibrato_depth |-> PyInt(28), reverb_mix |-> PyInt(26),
     reverb_size |-> PyInt(48), attack |-> PyInt(45), release |-> PyInt(190),
     pitch_variation |-> PyInt(10), timing_variation |-> PyInt(5),
     formant_variation |-> PyInt(12), breathiness |-> PyInt(10),
     warmth |-> PyInt(38), brightness |-> PyInt(58),
     voice_types |-> PyDict(<<<<S("mezzo_soprano"), PyInt(100)>>>>),
     tags |-> PyList(<<S("female"), S("mezzo-soprano"), S("medium-high"), S("versatile")>>)]

\* female_presets[2], generate_gender_presets.py lines 364-388
female_literal_3 ==
    [name |-> PyStr(<<"F", "e", "m", "a", "l", "e", " ", "3", ":", " ", "A", "l", "t", "o">>),
     description |-> S("Female alto voice (F3-D5, 175-590 Hz)"),
     language |-> S("english"), synthesis_method |-> S("formant"),
     lyrics |-> S("ah oh oo eh"), num_voices |-> PyInt(6),
     formant_mix |-> PyInt(100), subharmonic_mix |-> PyInt(0),
     stereo_width |-> PyInt(68), vibrato_rate |-> PyFloat(60),
     vibrato_depth |-> PyInt(24), reverb_mix |-> PyInt(24),
     reverb_size |-> PyInt(45), attack |-> PyInt(50), release |-> PyInt(200),
     pitch_variation |-> PyInt(10), timing_variation |-> PyInt(5),
     formant_variation |-> PyInt(12), breathiness |-> PyInt(10),
     warmth |-> PyInt(45), brightness |-> PyInt(50),
     voice_types |-> PyDict(<<<<S("alto"), PyInt(100)>>>>),
     tags |-> PyList(<<S("female"), S("alto"), S("low"), S("warm"), S("harmony")>>)]

\* female_presets[3], generate_gender_presets.py lines 391-414
female_literal_4 ==
    [name |-> PyStr(<<"F", "e", "m", "a", "l", "e", " ", "4", ":", " ", "C", "o", "l", "o", "r", "a", "t", "u", "r", "a">>),
     description |-> S("Agile female coloratura with fast passages"),
     language |-> S("english"), synthesis_method |-> S("diphone"),
     lyrics |-> S("ah-eh ee-oh oh-oo"), num_voices |-> PyInt(4),
     formant_mix |-> PyInt(100), subharmonic_mix |-> PyInt(0),
     stereo_width |-> PyInt(78), vibrato_rate |-> PyFloat(75),
     vibrato_depth |-> PyInt(38), reverb_mix |-> PyInt(22),
     reverb_size |-> PyInt(40), attack |-> PyInt(20), release |-> PyInt(120),
     pitch_variation |-> PyInt(18), timing_variation |-> PyInt(8),
     breathiness |-> PyInt(8), warmth |-> PyInt(25),
     brightness |-> PyInt(80),
     voice_types |-> PyDict(<<<<S("coloratura"), PyInt(100)>>>>),
     tags |-> PyList(<<S("female"), S("coloratura"), S("agile"), S("high"), S("opera")>>)]

\* female_presets[4], generate_gender_presets.py lines 417-445
female_literal_5 ==
    [name |-> PyStr(<<"F", "e", "m", "a", "l", "e", " ", "5", ":", " ", "S", "S", "A", "A", " ", "C", "h", "o", "i", "r">>),
     description |-> S("Traditional female SSAA choir (Soprano1-Soprano2-Alto1-Alto2)"),
     language |-> S("english"), synthesis_method |-> S("diphone"),
     lyrics |-> S("ah-eh ee-oh oh-oo"), num_voices |-> PyInt(12),
     formant_mix |-> PyInt(100), subharmonic_mix |-> PyInt(0),
     stereo_width |-> PyInt(85), vibrato_rate |-> PyFloat(65),
     vibrato_depth |-> PyInt(28), reverb_mix |-> PyInt(32),
     reverb_size |-> PyInt(58), attack |-> PyInt(42), release |-> PyInt(185),
     pitch_variation |-> PyInt(12), timing_variation |-> PyInt(6),
     formant_variation |-> PyInt(15), breathiness |-> PyInt(12),
     warmth |-> PyInt(38), brightness |-> PyInt(62),
     voice_types |-> PyDict(<<<<S("soprano"), PyInt(50)>>, <<S("mezzo_soprano"), PyInt(25)>>, <<S("alto"), PyInt(25)>>>>),
     tags |-> PyList(<<S("female"), S("ssaa"), S("choir"), S("ensemble"), S("traditional")>>)]

\* female_presets[5], generate_gender_presets.py lines 448-471
female_literal_6 ==
    [name |-> PyStr(<<"F", "e", "m", "a", "l", "e", " ", "6", ":", " ", "P", "o", "p", " ", "S", "o", "p", "r", "a", "n", "o">>),
     description |-> S("Modern pop soprano lead vocals"),
     language |-> S("english"), synthesis_method |-> S("diphone"),
     lyrics |-> S("ah eh ee oh"), num_voices |-> PyInt(6),
     formant_mix |-> PyInt(92), subharmonic_mix |-> PyInt(8),
     stereo_width |-> PyInt(80), vibrato_rate |-> PyFloat(72),
     vibrato_depth |-> PyInt(35), reverb_mix |-> PyInt(15),
     reverb_size |-> PyInt(30), attack |-> PyInt(20), release |-> PyInt(140),
     pitch_variation |-> PyInt(15), timing_variation |-> PyInt(7),
     breathiness |-> PyInt(15), warmth |-> PyInt(35),
     brightness |-> PyInt(75),
     voice_types |-> PyDict(<<<<S("soprano"), PyInt(100)>>>>),
     tags |-> PyList(<<S("female"), S("pop"), S("soprano"), S("lead"), S("modern")>>)]

\* female_presets[6], generate_gender_presets.py lines 474-497
female_literal_7 ==
    [name |-> PyStr(<<"F", "e", "m", "a", "l", "e", " ", "7", ":", " ", "F", "o", "l", "k", " ", "A", "l", "t", "o">>),
     description |-> S("Warm folk alto with intimate character"),
     language |-> S("english"), synthesis_method |-> S("formant"),
     lyrics |-> S("ah oh oo"), num_voices |-> PyInt(4),
     formant_mix |-> PyInt(95), subharmonic_mix |-> PyInt(5),
     stereo_width |-> PyInt(60), vibrato_rate |-> PyFloat(55),
     vibrato_depth |-> PyInt(20), reverb_mix |-> PyInt(20),
     reverb_size |-> PyInt(35), attack |-> PyInt(55), release |-> PyInt(210),
     pitch_variation |-> PyInt(8), timing_variation |-> PyInt(4),
     breathiness |-> PyInt(12), warmth |-> PyInt(55),
     brightness |-> PyInt(45),
     voice_types |-> PyDict(<<<<S("alto"), PyInt(100)>>>>),
     tags |-> PyList(<<S("female"), S("alto"), S("folk"), S("warm"), S("intimate")>>)]

\* female_presets[7], generate_gender_presets.py lines 500-523
female_literal_8 ==
    [name |-> PyStr(<<"F", "e", "m", "a", "l", "e", " ", "8", ":", " ", "J", "a", "z", "z", " ", "S", "o", "p", "r", "a", "n", "o">>),
     description |-> S("Smoky jazz club soprano with vibrato"),
     language |-> S("english"), synthesis_method |-> S("formant"),
     lyrics |-> S("ah eh ee oh"), num_voices |-> PyInt(4),
     formant_mix |-> PyInt(98), subharmonic_mix |-> PyInt(2),
     stereo_width |-> PyInt(70), vibrato_rate |-> PyFloat(80),
     vibrato_depth |-> PyInt(40), reverb_mix |-> PyInt(25),
     reverb_size |-> PyInt(45), attack |-> PyInt(35), release |-> PyInt(170),
     pitch_variation |-> PyInt(20), timing_variation |-> PyInt(8),
     breathiness |-> PyInt(18), warmth |-> PyInt(50),
     brightness |-> PyInt(60),
     voice_types |-> PyDict(<<<<S("soprano"), PyInt(100)>>>>),
     tags |-> PyList(<<S("female"), S("soprano"), S("jazz"), S("smoky"), S("club")>>)]

\* female_presets, generate_gender_presets.py lines 308-524
female_literals ==
    <<female_literal_1, female_literal_2, female_literal_3, female_literal_4,
      female_literal_5, female_literal_6, female_literal_7, female_literal_8>>

\* child_presets[0], generate_gender_presets.py lines 532-556
child_literal_1 ==
    [name |-> PyStr(<<"C", "h", "i", "l", "d", " ", "1", ":", " ", "B", "o", "y", " ", "S", "o", "p", "r", "a", "n", "o">>),
     description |-> S("Boy soprano before voice change (C4-A5, 260-880 Hz)"),
     language |-> S("english"), synthesis_method |-> S("formant"),
     lyrics |-> S("ah eh ee oh"), num_voices |-> PyInt(8),
     formant_mix |-> PyInt(100), subharmonic_mix |-> PyInt(0),
     stereo_width |-> PyInt(70), vibrato_rate |-> PyFloat(60),
     vibrato_depth |-> PyInt(22), reverb_mix |-> PyInt(30),
     reverb_size |-> PyInt(55), attack |-> PyInt(45), release |-> PyInt(190),
     pitch_variation |-> PyInt(8), timing_variation |-> PyInt(4),
     formant_variation |-> PyInt(10), breathiness |-> PyInt(8),
     warmth |-> PyInt(40), brightness |-> PyInt(65),
     voice_types |-> PyDict(<<<<S("boy_soprano"), PyInt(100)>>>>),
     tags |-> PyList(<<S("child"), S("boy"), S("soprano"), S("choir"), S("bright")>>)]

\* child_presets[1], generate_gender_presets.py lines 559-583
child_literal_2 ==
    [name |-> PyStr(<<"C", "h", "i", "l", "d", " ", "2", ":", " ", "G", "i", "r", "l", " ", "S", "o", "p", "r", "a", "n", "o">>),
     description |-> S("Girl soprano (C4-C6, 260-1050 Hz)"),
     language |-> S("english"), synthesis_method |-> S("formant"),
     lyrics |-> S("ah eh ee oh oo"), num_voices |-> PyInt(8),
     formant_mix |-> PyInt(100), subharmonic_mix |-> PyInt(0),
     stereo_width |-> PyInt(72), vibrato_rate |-> PyFloat(65),
     vibrato_depth |-> PyInt(25), reverb_mix |-> PyInt(28),
     reverb_size |-> PyInt(50), attack |-> PyInt(40), release |-> PyInt(180),
     pitch_variation |-> PyInt(10), timing_variation |-> PyInt(5),
     formant_variation |-> PyInt(12), breathiness |-> PyInt(10),
     warmth |-> PyInt(35), brightness |-> PyInt(70),
     voice_types |-> PyDict(<<<<S("girl_soprano"), PyInt(100)>>>>),
     tags |-> PyList(<<S("child"), S("girl"), S("soprano"), S("bright"), S("choir")>>)]

\* child_presets[2], generate_gender_presets.py lines 586-613
child_literal_3 ==
    [name |-> PyStr(<<"C", "h", "i", "l", "d", " ", "3", ":", " ", "C", "h", "i", "l", "d", "r", "e", "n", "'", "s", " ", "C", "h", "o", "i", "r">>),
     description |-> S("Mixed children's choir (boys and girls)"),
     language |-> S("english"), synthesis_method |-> S("diphone"),
     lyrics |-> S("ah-eh ee-oh"), num_voices |-> PyInt(16),
     formant_mix |-> PyInt(100), subharmonic_mix |-> PyInt(0),
     stereo_width |-> PyInt(75), vibrato_rate |-> PyFloat(62),
     vibrato_depth |-> PyInt(24), reverb_mix |-> PyInt(25),
     reverb_size |-> PyInt(45), attack |-> PyInt(40), release |-> PyInt(170),
     pitch_variation |-> PyInt(12), timing_variation |-> PyInt(6),
     formant_variation |-> PyInt(12), breathiness |-> PyInt(12),
     warmth |-> PyInt(38), brightness |-> PyInt(68),
     voice_types |-> PyDict(<<<<S("boy_soprano"), PyInt(50)>>, <<S("girl_soprano"), PyInt(50)>>>>),
     tags |-> PyList(<<S("child"), S("children"), S("choir"), S("ensemble"), S("bright")>>)]

\* child_presets[3], generate_gender_presets.py lines 616-639
child_literal_4 ==
    [name |-> PyStr(<<"C", "h", "i", "l", "d", " ", "4", ":", " ", "C", "h", "o", "i", "r", "b", "o", "y", "s">>),
     description |-> S("Traditional English choirboys"),
     language |-> S("english"), synthesis_method |-> S("formant"),
     lyrics |-> S("ah eh ee oh oo"), num_voices |-> PyInt(12),
     formant_mix |-> PyInt(100), subharmonic_mix |-> PyInt(0),
     stereo_width |-> PyInt(65), vibrato_rate |-> PyFloat(58),
     vibrato_depth |-> PyInt(20), reverb_mix |-> PyInt(40),
     reverb_size |-> PyInt(75), attack |-> PyInt(70), release |-> PyInt(280),
     pitch_variation |-> PyInt(6), timing_variation |-> PyInt(4),
     breathiness |-> PyInt(10), warmth |-> PyInt(45),
     brightness |-> PyInt(60),
     voice_types |-> PyDict(<<<<S("boy_soprano"), PyInt(100)>>>>),
     tags |-> PyList(<<S("child"), S("choirboy"), S("traditional"), S("church"), S("english")>>)]

\* child_presets, generate_gender_presets.py lines 530-640
child_literals ==
    <<child_literal_1, child_literal_2, child_literal_3, child_literal_4>>

\* mixed_presets[0], generate_gender_presets.py lines 648-678
mixed_literal_1 ==
    [name |-> PyStr(<<"M", "i", "x", "e", "d", " ", "1", ":", " ", "S", "A", "T", "B", " ", "B", "a", "l", "a", "n", "c", "e", "d">>),
     description |-> S("Traditional SATB with equal male/female balance"),
     language |-> S("english"), synthesis_method |-> S("diphone"),
     lyrics |-> S("oh-ah ah-eh ee-oh oh-oo"), num_voices |-> PyInt(16),
     formant_mix |-> PyInt(100), subharmonic_mix |-> PyInt(0),
     stereo_width |-> PyInt(85), vibrato_rate |-> PyFloat(60),
     vibrato_depth |-> PyInt(26), reverb_mix |-> PyInt(35),
     reverb_size |-> PyInt(65), attack |-> PyInt(50), release |-> PyInt(210),
     pitch_variation |-> PyInt(12), timing_variation |-> PyInt(6),
     formant_variation |-> PyInt(14), breathiness |-> PyInt(10),
     warmth |-> PyInt(45), brightness |-> PyInt(55),
     voice_types |-> PyDict(<<<<S("soprano"), PyInt(25)>>, <<S("alto"), PyInt(25)>>, <<S("tenor"), PyInt(25)>>, <<S("bass"), PyInt(25)>>>>),
     gender_balance |-> PyDict(<<<<S("male"), PyInt(50)>>, <<S("female"), PyInt(50)>>>>),
     tags |-> PyList(<<S("mixed"), S("satb"), S("balanced"), S("choir"), S("traditional")>>)]

\* mixed_presets[1], generate_gender_presets.py lines 681-712
mixed_literal_2 ==
    [name |-> PyStr(<<"M", "i", "x", "e", "d", " ", "2", ":", " ", "F", "e", "m", "a", "l", "e", " ", "H", "e", "a", "v", "y">>),
     description |-> S("Female-dominated ensemble (60% female, 40% male)"),
     language |-> S("english"), synthesis_method |-> S("diphone"),
     lyrics |-> S("ah-eh ee-oh oh-oo"), num_voices |-> PyInt(20),
     formant_mix |-> PyInt(100), subharmonic_mix |-> PyInt(0),
     stereo_width |-> PyInt(88), vibrato_rate |-> PyFloat(63),
     vibrato_depth |-> PyInt(28), reverb_mix |-> PyInt(32),
     reverb_size |-> PyInt(60), attack |-> PyInt(42), release |-> PyInt(190),
     pitch_variation |-> PyInt(14), timing_variation |-> PyInt(7),
     formant_variation |-> PyInt(16), breathiness |-> PyInt(12),
     warmth |-> PyInt(40), brightness |-> PyInt(65),
     voice_types |-> PyDict(<<<<S("soprano"), PyInt(35)>>, <<S("alto"), PyInt(25)>>, <<S("mezzo_soprano"), PyInt(10)>>, <<S("tenor"), PyInt(20)>>, <<S("bass"), PyInt(10)>>>>),
     gender_balance |-> PyDict(<<<<S("male"), PyInt(40)>>, <<S("female"), PyInt(60)>>>>),
     tags |-> PyList(<<S("mixed"), S("female-heavy"), S("bright"), S("choir"), S("ensemble")>>)]

\* mixed_presets[2], generate_gender_presets.py lines 715-746
mixed_literal_3 ==
    [name |-> PyStr(<<"M", "i", "x", "e", "d", " ", "3", ":", " ", "M", "a", "l", "e", " ", "H", "e", "a", "v", "y">>),
     description |-> S("Male-dominated ensemble (60% male, 40% female)"),
     language |-> S("english"), synthesis_method |-> S("diphone"),
     lyrics |-> S("oh-ah ah-eh ee-oh"), num_voices |-> PyInt(20),
     formant_mix |-> PyInt(100), subharmonic_mix |-> PyInt(0),
     stereo_width |-> PyInt(80), vibrato_rate |-> PyFloat(58),
     vibrato_depth |-> PyInt(24), reverb_mix |-> PyInt(30),
     reverb_size |-> PyInt(55), attack |-> PyInt(55), release |-> PyInt(220),
     pitch_variation |-> PyInt(12), timing_variation |-> PyInt(6),
     formant_variation |-> PyInt(12), breathiness |-> PyInt(8),
     warmth |-> PyInt(55), brightness |-> PyInt(40),
     voice_types |-> PyDict(<<<<S("soprano"), PyInt(15)>>, <<S("alto"), PyInt(25)>>, <<S("tenor"), PyInt(30)>>, <<S("baritone"), PyInt(15)>>, <<S("bass"), PyInt(15)>>>>),
     gender_balance |-> PyDict(<<<<S("male"), PyInt(60)>>, <<S("female"), PyInt(40)>>>>),
     tags |-> PyList(<<S("mixed"), S("male-heavy"), S("warm"), S("powerful"), S("choir")>>)]

\* mixed_presets[3], generate_gender_presets.py lines 749-779
mixed_literal_4 ==
    [name |-> PyStr(<<"M", "i", "x", "e", "d", " ", "4", ":", " ", "D", "o", "u", "b", "l", "e", " ", "C", "h", "o", "i", "r">>),
     description |-> S("Massive double choir (32 voices, SATB + SATB)"),
     language |-> S("english"), synthesis_method |-> S("diphone"),
     lyrics |-> S("ah-eh ee-oh oh-oo"), num_voices |-> PyInt(32),
     formant_mix |-> PyInt(100), subharmonic_mix |-> PyInt(0),
     stereo_width |-> PyInt(100), vibrato_rate |-> PyFloat(62),
     vibrato_depth |-> PyInt(26), reverb_mix |-> PyInt(45),
     reverb_size |-> PyInt(75), attack |-> PyInt(50), release |-> PyInt(220),
     pitch_variation |-> PyInt(14), timing_variation |-> PyInt(7),
     formant_variation |-> PyInt(15), breathiness |-> PyInt(10),
     warmth |-> PyInt(48), brightness |-> PyInt(52),
     voice_types |-> PyDict(<<<<S("soprano"), PyInt(25)>>, <<S("alto"), PyInt(25)>>, <<S("tenor"), PyInt(25)>>, <<S("bass"), PyInt(25)>>>>),
     gender_balance |-> PyDict(<<<<S("male"), PyInt(50)>>, <<S("female"), PyInt(50)>>>>),
     tags |-> PyList(<<S("mixed"), S("double-choir"), S("massive"), S("satb"), S("powerful")>>)]

\* mixed_presets[4], generate_gender_presets.py lines 782-812
mixed_literal_5 ==
    [name |-> PyStr(<<"M", "i", "x", "e", "d", " ", "5", ":", " ", "C", "h", "a", "m", "b", "e", "r", " ", "C", "h", "o", "i", "r">>),
     description |-> S("Intimate chamber choir with refined blend"),
     language |-> S("english"), synthesis_method |-> S("diphone"),
     lyrics |-> S("ah-eh ee-oh oh-oo"), num_voices |-> PyInt(12),
     formant_mix |-> PyInt(100), subharmonic_mix |-> PyInt(0),
     stereo_width |-> PyInt(75), vibrato_rate |-> PyFloat(60),
     vibrato_depth |-> PyInt(24), reverb_mix |-> PyInt(28),
     reverb_size |-> PyInt(50), attack |-> PyInt(45), release |-> PyInt(200),
     pitch_variation |-> PyInt(10), timing_variation |-> PyInt(5),
     formant_variation |-> PyInt(12), breathiness |-> PyInt(8),
     warmth |-> PyInt(45), brightness |-> PyInt(55),
     voice_types |-> PyDict(<<<<S("soprano"), PyInt(30)>>, <<S("alto"), PyInt(25)>>, <<S("tenor"), PyInt(25)>>, <<S("bass"), PyInt(20)>>>>),
     gender_balance |-> PyDict(<<<<S("male"), PyInt(48)>>, <<S("female"), PyInt(52)>>>>),
     tags |-> PyList(<<S("mixed"), S("chamber"), S("intimate"), S("refined"), S("choir")>>)]

\* mixed_presets[5], generate_gender_presets.py lines 815-845
mixed_literal_6 ==
    [name |-> PyStr(<<"M", "i", "x", "e", "d", " ", "6", ":", " ", "C", "a", "t", "h", "e", "d", "r", "a", "l", " ", "C", "h", "o", "i", "r">>),
     description |-> S("Large cathedral choir with reverberant space"),
     language |-> S("latin"), synthesis_method |-> S("formant"),
     lyrics |-> S("ah-eh-ee-oh-oo"), num_voices |-> PyInt(24),
     formant_mix |-> PyInt(100), subharmonic_mix |-> PyInt(0),
     stereo_width |-> PyInt(90), vibrato_rate |-> PyFloat(55),
     vibrato_depth |-> PyInt(22), reverb_mix |-> PyInt(60),
     reverb_size |-> PyInt(100), attack |-> PyInt(80),
     release |-> PyInt(350), pitch_variation |-> PyInt(12),
     timing_variation |-> PyInt(6), formant_variation |-> PyInt(10),
     breathiness |-> PyInt(12), warmth |-> PyInt(55),
     brightness |-> PyInt(45),
     voice_types |-> PyDict(<<<<S("soprano"), PyInt(25)>>, <<S("alto"), PyInt(25)>>, <<S("tenor"), PyInt(25)>>, <<S("bass"), PyInt(25)>>>>),
     gender_balance |-> PyDict(<<<<S("male"), PyInt(50)>>, <<S("female"), PyInt(50)>>>>),
     tags |-> PyList(<<S("mixed"), S("cathedral"), S("large"), S("reverb"), S("latin")>>)]

\* mixed_presets[6], generate_gender_presets.py lines 848-877
mixed_literal_7 ==
    [name |-> PyStr(<<"M", "i", "x", "e", "d", " ", "7", ":", " ", "G", "o", "s", "p", "e", "l", " ", "C", "h", "o", "i", "r">>),
     description |-> S("Energetic gospel choir with female lead"),
     language |-> S("english"), synthesis_method |-> S("diphone"),
     lyrics |-> S("ah-eh ee-oh oh-ay"), num_voices |-> PyInt(24),
     formant_mix |-> PyInt(95), subharmonic_mix |-> PyInt(5),
     stereo_width |-> PyInt(90), vibrato_rate |-> PyFloat(70),
     vibrato_depth |-> PyInt(35), reverb_mix |-> PyInt(30),
     reverb_size |-> PyInt(55), attack |-> PyInt(35), release |-> PyInt(180),
     pitch_variation |-> PyInt(18), timing_variation |-> PyInt(8),
     breathiness |-> PyInt(15), warmth |-> PyInt(45),
     brightness |-> PyInt(70),
     voice_types |-> PyDict(<<<<S("soprano"), PyInt(40)>>, <<S("alto"), PyInt(30)>>, <<S("tenor"), PyInt(20)>>, <<S("bass"), PyInt(10)>>>>),
     gender_balance |-> PyDict(<<<<S("male"), PyInt(35)>>, <<S("female"), PyInt(65)>>>>),
     tags |-> PyList(<<S("mixed"), S("gospel"), S("energetic"), S("soul"), S("female-heavy")>>)]

\* mixed_presets[7], generate_gender_presets.py lines 880-909
mixed_literal_8 ==
    [name |-> PyStr(<<"M", "i", "x", "e", "d", " ", "8", ":", " ", "B", "a", "r", "b", "e", "r", "s", "h", "o", "p", " ", "M", "i", "x", "e", "d">>),
     description |-> S("Mixed gender barbershop harmony"),
     language |-> S("english"), synthesis_method |-> S("diphone"),
     lyrics |-> S("ah-eh ee-oh"), num_voices |-> PyInt(4),
     formant_mix |-> PyInt(98), subharmonic_mix |-> PyInt(2),
     stereo_width |-> PyInt(70), vibrato_rate |-> PyFloat(65),
     vibrato_depth |-> PyInt(30), reverb_mix |-> PyInt(10),
     reverb_size |-> PyInt(25), attack |-> PyInt(25), release |-> PyInt(150),
     pitch_variation |-> PyInt(6), timing_variation |-> PyInt(3),
     breathiness |-> PyInt(8), warmth |-> PyInt(50),
     brightness |-> PyInt(60),
     voice_types |-> PyDict(<<<<S("tenor"), PyInt(25)>>, <<S("lead"), PyInt(25)>>, <<S("baritone"), PyInt(25)>>, <<S("bass"), PyInt(25)>>>>),
     gender_balance |-> PyDict(<<<<S("male"), PyInt(75)>>, <<S("female"), PyInt(25)>>>>),
     tags |-> PyList(<<S("mixed"), S("barbershop"), S("harmony"), S("close-harmony")>>)]

\* mixed_presets[8], generate_gender_presets.py lines 912-941
mixed_literal_9 ==
    [name |-> PyStr(<<"M", "i", "x", "e", "d", " ", "9", ":", " ", "C", "o", "n", "t", "e", "m", "p", "o", "r", "a", "r", "y", " ", "W", "o", "r", "s", "h", "i", "p">>),
     description |-> S("Modern worship team with balanced voices"),
     language |-> S("english"), synthesis_method |-> S("diphone"),
     lyrics |-> S("ah-eh ee-oh oh-oo"), num_voices |-> PyInt(12),
     formant_mix |-> PyInt(92), subharmonic_mix |-> PyInt(8),
     stereo_width |-> PyInt(82), vibrato_rate |-> PyFloat(62),
     vibrato_depth |-> PyInt(28), reverb_mix |-> PyInt(25),
     reverb_size |-> PyInt(45), attack |-> PyInt(30), release |-> PyInt(170),
     pitch_variation |-> PyInt(12), timing_variation |-> PyInt(6),
     breathiness |-> PyInt(10), warmth |-> PyInt(42),
     brightness |-> PyInt(62),
     voice_types |-> PyDict(<<<<S("soprano"), PyInt(30)>>, <<S("alto"), PyInt(25)>>, <<S("tenor"), PyInt(25)>>, <<S("bass"), PyInt(20)>>>>),
     gender_balance |-> PyDict(<<<<S("male"), PyInt(50)>>, <<S("female"), PyInt(50)>>>>),
     tags |-> PyList(<<S("mixed"), S("worship"), S("contemporary"), S("modern"), S("balanced")>>)]

\* mixed_presets[9], generate_gender_presets.py lines 944-974
mixed_literal_10 ==
    [name |-> PyStr(<<"M", "i", "x", "e", "d", " ", "1", "0", ":", " ", "R", "e", "n", "a", "i", "s", "s", "a", "n", "c", "e", " ", "P", "o", "l", "y", "p", "h", "o", "n", "y">>),
     description |-> S("Authentic Renaissance polyphony (male-heavy)"),
     language |-> S("latin"), synthesis_method |-> S("diphone"),
     lyrics |-> S("ah-eh ee-oh oh-oo"), num_voices |-> PyInt(16),
     formant_mix |-> PyInt(100), subharmonic_mix |-> PyInt(0),
     stereo_width |-> PyInt(70), vibrato_rate |-> PyFloat(55),
     vibrato_depth |-> PyInt(18), reverb_mix |-> PyInt(35),
     reverb_size |-> PyInt(60), attack |-> PyInt(55), release |-> PyInt(230),
     pitch_variation |-> PyInt(8), timing_variation |-> PyInt(4),
     formant_variation |-> PyInt(10), breathiness |-> PyInt(8),
     warmth |-> PyInt(52), brightness |-> PyInt(42),
     voice_types |-> PyDict(<<<<S("soprano"), PyInt(20)>>, <<S("alto"), PyInt(30)>>, <<S("tenor"), PyInt(30)>>, <<S("bass"), PyInt(20)>>>>),
     gender_balance |-> PyDict(<<<<S("male"), PyInt(80)>>, <<S("female"), PyInt(20)>>>>),
     tags |-> PyList(<<S("mixed"), S("renaissance"), S("polyphony"), S("authentic"), S("latin")>>)]

\* mixed_presets, generate_gender_presets.py lines 646-975
mixed_literals ==
    <<mixed_literal_1, mixed_literal_2, mixed_literal_3, mixed_literal_4,
      mixed_literal_5, mixed_literal_6, mixed_literal_7, mixed_literal_8,
      mixed_literal_9, mixed_literal_10>>

\* nonbinary_presets[0], generate_gender_presets.py lines 982-1007
nonbinary_literal_1 ==
    [name |-> PyStr(<<"N", "o", "n", "-", "B", "i", "n", "a", "r", "y", " ", "1", ":", " ", "N", "e", "u", "t", "r", "a", "l", " ", "V", "o", "i", "c", "e">>),
     description |-> S("Gender-neutral voice with balanced characteristics"),
     language |-> S("english"), synthesis_method |-> S("formant"),
     lyrics |-> S("ah eh ee oh oo"), num_voices |-> PyInt(8),
     formant_mix |-> PyInt(100), subharmonic_mix |-> PyInt(0),
     stereo_width |-> PyInt(75), vibrato_rate |-> PyFloat(60),
     vibrato_depth |-> PyInt(25), reverb_mix |-> PyInt(25),
     reverb_size |-> PyInt(50), attack |-> PyInt(50), release |-> PyInt(200),
     pitch_variation |-> PyInt(10), timing_variation |-> PyInt(5),
     formant_variation |-> PyInt(10), breathiness |-> PyInt(10),
     warmth |-> PyInt(50), brightness |-> PyInt(50),
     voice_types |-> PyDict(<<<<S("neutral"), PyInt(100)>>>>),
     gender_balance |-> PyDict(<<<<S("male"), PyInt(50)>>, <<S("female"), PyInt(50)>>>>),
     tags |-> PyList(<<S("non-binary"), S("neutral"), S("balanced"), S("versatile")>>)]

\* nonbinary_presets[1], generate_gender_presets.py lines 1009-1034
nonbinary_literal_2 ==
    [name |-> PyStr(<<"N", "o", "n", "-", "B", "i", "n", "a", "r", "y", " ", "2", ":", " ", "A", "n", "d", "r", "o", "g", "y", "n", "o", "u", "s", " ", "H", "i", "g", "h">>),
     description |-> S("Androgynous high voice (flexible gender)"),
     language |-> S("english"), synthesis_method |-> S("formant"),
     lyrics |-> S("ah eh ee oh"), num_voices |-> PyInt(6),
     formant_mix |-> PyInt(100), subharmonic_mix |-> PyInt(0),
     stereo_width |-> PyInt(78), vibrato_rate |-> PyFloat(65),
     vibrato_depth |-> PyInt(28), reverb_mix |-> PyInt(22),
     reverb_size |-> PyInt(45), attack |-> PyInt(40), release |-> PyInt(180),
     pitch_variation |-> PyInt(14), timing_variation |-> PyInt(7),
     formant_variation |-> PyInt(14), breathiness |-> PyInt(10),
     warmth |-> PyInt(45), brightness |-> PyInt(55),
     voice_types |-> PyDict(<<<<S("androgynous"), PyInt(100)>>>>),
     gender_balance |-> PyDict(<<<<S("male"), PyInt(50)>>, <<S("female"), PyInt(50)>>>>),
     tags |-> PyList(<<S("non-binary"), S("androgynous"), S("high"), S("flexible")>>)]

\* nonbinary_presets[2], generate_gender_presets.py lines 1036-1061
nonbinary_literal_3 ==
    [name |-> PyStr(<<"N", "o", "n", "-", "B", "i", "n", "a", "r", "y", " ", "3", ":", " ", "G", "e", "n", "d", "e", "r", " ", "F", "l", "u", "i", "d">>),
     description |-> S("Voice that can shift between male/female characteristics"),
     language |-> S("english"), synthesis_method |-> S("diphone"),
     lyrics |-> S("ah-eh ee-oh oh-oo"), num_voices |-> PyInt(8),
     formant_mix |-> PyInt(100), subharmonic_mix |-> PyInt(0),
     stereo_width |-> PyInt(80), vibrato_rate |-> PyFloat(62),
     vibrato_depth |-> PyInt(26), reverb_mix |-> PyInt(25),
     reverb_size |-> PyInt(48), attack |-> PyInt(45), release |-> PyInt(190),
     pitch_variation |-> PyInt(20), timing_variation |-> PyInt(10),
     formant_variation |-> PyInt(20), breathiness |-> PyInt(12),
     warmth |-> PyInt(48), brightness |-> PyInt(52),
     voice_types |-> PyDict(<<<<S("gender_fluid"), PyInt(100)>>>>),
     gender_balance |-> PyDict(<<<<S("male"), PyInt(50)>>, <<S("female"), PyInt(50)>>>>),
     tags |-> PyList(<<S("non-binary"), S("gender-fluid"), S("versatile"), S("shifting")>>)]

\* nonbinary_presets[3], generate_gender_presets.py lines 1063-1088
nonbinary_literal_4 ==
    [name |-> PyStr(<<"N", "o", "n", "-", "B", "i", "n", "a", "r", "y", " ", "4", ":", " ", "T", "h", "i", "r", "d", " ", "G", "e", "n", "d", "e", "r">>),
     description |-> S("Traditional third gender voice (Hijra/Two-Spirit)"),
     language |-> S("english"), synthesis_method |-> S("formant"),
     lyrics |-> S("ah eh ee oh"), num_voices |-> PyInt(6),
     formant_mix |-> PyInt(100), subharmonic_mix |-> PyInt(0),
     stereo_width |-> PyInt(72), vibrato_rate |-> PyFloat(60),
     vibrato_depth |-> PyInt(24), reverb_mix |-> PyInt(30),
     reverb_size |-> PyInt(55), attack |-> PyInt(60), release |-> PyInt(220),
     pitch_variation |-> PyInt(12), timing_variation |-> PyInt(6),
     formant_variation |-> PyInt(12), breathiness |-> PyInt(15),
     warmth |-> PyInt(55), brightness |-> PyInt(45),
     voice_types |-> PyDict(<<<<S("third_gender"), PyInt(100)>>>>),
     gender_balance |-> PyDict(<<<<S("male"), PyInt(50)>>, <<S("female"), PyInt(50)>>>>),
     tags |-> PyList(<<S("non-binary"), S("third-gender"), S("traditional"), S("cultural")>>)]

\* nonbinary_presets, generate_gender_presets.py lines 981-1089
nonbinary_literals ==
    <<nonbinary_literal_1, nonbinary_literal_2, nonbinary_literal_3,
      nonbinary_literal_4>>

\* The five list literals of generate_gender_presets.py, in the order main
\* concatenates them.
gender_literals ==
    <<male_literals, female_literals, child_literals, mixed_literals,
      nonbinary_literals>>


(***************************************************************************)
(* Calls a catalog author could write: the inputs of the generic runs      *)
(***************************************************************************)
\* Only the five required arguments.  (Two calls of it return records of
\* one name that differ when the clock has advanced in between.)
call_defaults ==
    [name |-> PyStr(<<"/", "a", " ", "b">>), description |-> S("defaults"),
     language |-> S("english"), synthesis_method |-> S("formant"),
     lyrics |-> S("ah")]

\* An empty voice_types map and an empty tuple of tags, a zero voice
\* count, a gender_balance map that does not sum to 100, a description
\* with a quote and a backslash.
call_empty ==
    [name |-> PyStr(<<"a", "/", "b">>),
     description |-> PyStr(<<"q", "\"", "\\", "z">>),
     language |-> S("latin"), synthesis_method |-> S("formant"),
     lyrics |-> S("oo"), num_voices |-> PyInt(0),
     gender_balance |-> PyDict(<< <<S("male"), PyInt(70)>> >>),
     voice_types |-> PyDict(<<>>), tags |-> PyTuple(<<>>)]

\* Out-of-range numbers, an empty gender_balance map, a voice_types map
\* that does not sum to 100 and has an int key, a tuple of tags.
call_unchecked ==
    [name |-> PyStr(<<"a", "_", "b">>), description |-> S("unchecked"),
     language |-> S("english"), synthesis_method |-> S("diphone"),
     lyrics |-> S("eh"), num_voices |-> PyInt(-1), warmth |-> PyInt(300),
     vibrato_rate |-> PyFloat(-15), gender_balance |-> PyDict(<<>>),
     voice_types |-> PyDict(<< <<S("bass"), PyInt(60)>>, <<PyInt(1), PyInt(30)>> >>),
     tags |-> PyTuple(<<S("x")>>)]

\* Tags given as a set, which json.dump does not accept.
call_set_tags ==
    [name |-> PyStr(<<"a", " ", "b">>), description |-> S("set of tags"),
     language |-> S("english"), synthesis_method |-> S("formant"),
     lyrics |-> S("oh"), tags |-> PySet({S("x")})]

\* The calls the generic catalogs of generate_gender_presets.py draw from.
Calls == {male_literal_1, call_defaults, call_empty, call_unchecked, call_set_tags}

\* The calls the generic catalogs of additional_presets.py draw from; its
\* create_preset has no gender_balance and no voice_types parameter.
AdditionalCalls == {call_defaults, call_set_tags, male_literal_1}

\* The catalogs of at most n calls.
RECURSIVE CallSeqs(_, _)
CallSeqs(calls, n) ==
    IF n = 0 THEN {<<>>}
    ELSE CallSeqs(calls, n - 1)
            \cup {Append(c, x) : c \in {q \in CallSeqs(calls, n - 1) : Len(q) = n - 1},
                                 x \in calls}

\* The five list literals of generate_gender_presets.py (male, female,
\* child, mixed, non-binary) holding the calls of c: the first call in the
\* first list, the second in the second, the rest in the fourth.
GenderLists(c) ==
    << IF Len(c) >= 1 THEN <<c[1]>> ELSE <<>>,
       IF Len(c) >= 2 THEN <<c[2]>> ELSE <<>>,
       <<>>,
       IF Len(c) >= 3 THEN SubSeq(c, 3, Len(c)) ELSE <<>>,
       <<>> >>

\* The ways to author the calls of c as the five list literals of
\* generate_gender_presets.py: every cut of c into five consecutive parts,
\* empty parts included.
Splits(c) ==
    {<<SubSeq(c, 1, a), SubSeq(c, a + 1, b), SubSeq(c, b + 1, d),
       SubSeq(c, d + 1, e), SubSeq(c, e + 1, Len(c))>> :
        <<a, b, d, e>> \in {q \in (0..Len(c)) \X (0..Len(c)) \X (0..Len(c)) \X (0..Len(c)) :
                              q[1] <= q[2] /\ q[2] <= q[3] /\ q[3] <= q[4]}}

\* The calls the split catalogs draw from: two calls of one name return
\* records of a duplicate name.
AssemblyCalls == {call_defaults, call_empty}

(***************************************************************************)
(* The output directory                                                    *)
(***************************************************************************)
\* A file of the directory: what a reader finds in it.
\*   kind "json":    a complete document, doc
\*   kind "empty":   nothing
\*   kind "partial": the beginning of a document
\*   kind "mixed":   parts of two documents
\*   kind "other":   a file that is no artifact
File(kind, doc) == [kind |-> kind, doc |-> doc]

NoDoc == JLit("null")

EmptyDirectory == [p \in {} |-> File("empty", NoDoc)]

\* Mutant of WriteFile: the file is opened for appending, so a file that
\* has content keeps it in front of what is written.
WriteFileAppends(d, path, file) ==
    [p \in DOMAIN d \cup {path} |->
        IF p # path THEN d[p]
        ELSE IF path \in DOMAIN d /\ d[path].kind \notin {"empty", "other"}
             THEN [kind |-> "mixed", doc |-> d[path].doc]
             ELSE file]

\* Mutant of WriteFile: a file that exists is left as it is.
WriteFileExclusive(d, path, file) ==
    [p \in DOMAIN d \cup {path} |-> IF p \in DOMAIN d THEN d[p] ELSE file]

\* The directory d with the content of the file at path replaced or, when
\* there is no such file, the file created.
WriteFile(d, path, file) ==
    [p \in DOMAIN d \cup {path} |-> IF p = path THEN file ELSE d[p]]

\* A directory left by earlier work: an artifact stored under the
\* identifier of the given name and a file that is no artifact.
UsedDirectory(name) ==
    WriteFile(
        WriteFile(EmptyDirectory, os_path_join(preset_dir, <<"notes.txt">>),
                  File("other", NoDoc)),
        os_path_join(preset_dir, Replace(Replace(name, " ", "_"), "/", "_") \o Extension),
        File("json", JObj(<< <<<<"legacy">>, JLit("true")>> >>)))


(***************************************************************************)
(* The run of one script                                                   *)
(***************************************************************************)
VARIABLES
    program,      \* "gender" or "additional": the script that runs
    literals,     \* the list literals of the script: the calls, per list
    lists,        \* the module-level lists built so far, one per literal
    idx,          \* the position of main's for loop in the batch
    pc,           \* "import", "loop", "done" (exit status 0) or "raised"
    exc,          \* the exception that ended the run, "none" otherwise
    clock,        \* the last reading of the wall clock
    disk,         \* the output directory: path -> File
    disk0,        \* the output directory as the run found it
    stdout,       \* the lines printed, in order
    peer,         \* a second run of the script in the same directory, if any
    race          \* per path, the run that wrote it last and whether two
                  \* writes of it overlapped (history, read by no action)

vars == <<program, literals, lists, idx, pc, exc, clock, disk, disk0, stdout, peer, race>>

\* What the actions of one run leave alone.
others == <<peer, race>>

\* No second run.
NoPeer == [pc |-> "none"]

\* No write has completed.
NoRace == [last |-> <<>>, overlapped |-> {}]

\* Mutant of Concat: a record whose name occurs in a later list is left out.
RECURSIVE ConcatSkipsRepeats(_)
ConcatSkipsRepeats(ls) ==
    IF ls = <<>> THEN <<>>
    ELSE LET rest == ConcatSkipsRepeats(Tail(ls))
             Fresh(x) == \A k \in 1..Len(rest) :
                            Get(Get(rest[k], S("metadata")), S("name"))
                               # Get(Get(x, S("metadata")), S("name"))
         IN SelectSeq(Head(ls), Fresh) \o rest

RECURSIVE Concat(_)
Concat(ls) == IF ls = <<>> THEN <<>> ELSE Head(ls) \o Concat(Tail(ls))

\* The batch main iterates: male_presets + female_presets + child_presets +
\* mixed_presets + nonbinary_presets in generate_gender_presets.py, the
\* one list additional_presets otherwise.  The lists do not change once
\* main runs, so the batch is their concatenation throughout the loop.
all_presets == Concat(lists)

\* The state a run of a script starts in: nothing built, nothing printed.
StartRun(prog, lits, d) ==
    /\ program = prog
    /\ literals = lits
    /\ lists = [g \in 1..Len(lits) |-> <<>>]
    /\ idx = 0
    /\ pc = "import"
    /\ exc = "none"
    /\ clock = 0
    /\ disk = d
    /\ disk0 = d
    /\ stdout = <<>>

\* One run of a script, alone in the directory.
Start(prog, lits, d) ==
    /\ StartRun(prog, lits, d)
    /\ peer = NoPeer
    /\ race = NoRace

\* Either script over a catalog of at most MaxBatch calls, in a directory
\* that holds an artifact under the identifier a_b.choirv2 and another file.
Init ==
    \E d \in {UsedDirectory(<<"a", "_", "b">>)} :
        \/ \E c \in CallSeqs(Calls, MaxBatch) \ {<<>>} :
              Start("gender", GenderLists(c), d)
        \/ \E c \in CallSeqs(AdditionalCalls, MaxBatch) \ {<<>>} :
              Start("additional", <<c>>, d)

\* additional_presets.py over its own catalog.
InitAdditional ==
    \E d \in {EmptyDirectory, UsedDirectory(additional_literal_1.name.s)} :
        Start("additional", <<additional_literals>>, d)

\* generate_gender_presets.py over a catalog of at most MaxBatch calls,
\* authored as its five list literals in every possible way.
InitAssembly ==
    \E c \in CallSeqs(AssemblyCalls, MaxBatch) \ {<<>>} : \E s \in Splits(c) :
        Start("gender", s, UsedDirectory(<<"a", "_", "b">>))

\* The list whose next element is evaluated next when the lists built so
\* far are ls; 0 when all are built.
NextListOf(ls) ==
    IF \E g \in 1..Len(literals) : Len(ls[g]) < Len(literals[g])
    THEN CHOOSE g \in 1..Len(literals) :
            /\ Len(ls[g]) < Len(literals[g])
            /\ \A h \in 1..(g - 1) : Len(ls[h]) = Len(literals[h])
    ELSE 0

NextList == NextListOf(lists)

\* Mutant of Raise: the exception is noted and the run goes on.
RaiseAndGoOn(kind) ==
    /\ pc' = pc
    /\ exc' = kind

\* What an uncaught exception leaves of the run: nothing catches it, the
\* interpreter exits.
Raise(kind) ==
    /\ pc' = "raised"
    /\ exc' = kind

\* Import time: the next element of a list literal is evaluated, a call of
\* the script's create_preset with two readings of the clock.
CreatePreset ==
    /\ pc = "import"
    /\ NextList # 0
    /\ LET g == NextList
           call == literals[g][Len(lists[g]) + 1]
       IN IF ~Binds(IF program = "gender" THEN GenderParams ELSE AdditionalParams, call)
          THEN /\ Raise("TypeError")
               /\ UNCHANGED <<lists, clock>>
          ELSE \E now1 \in clock..MaxClock : \E now2 \in now1..MaxClock :
                 /\ lists' = [lists EXCEPT ![g] =
                                Append(@, IF program = "gender"
                                          THEN create_preset(call, now1, now2)
                                          ELSE additional_create_preset(call, now1, now2))]
                 /\ clock' = now2
                 /\ UNCHANGED <<pc, exc>>
    /\ UNCHANGED <<program, literals, idx, disk, disk0, stdout, others>>

\* "=" * n
Rule(n) == <<"=", "*">> \o NatRepr(n)

\* What main prints before its loop.
Banner ==
    IF program = "gender"
    THEN << <<"Generating Choir V2.0 Gender & Voice Type Presets...">>, Rule(70) >>
    ELSE << <<"\\nAdding Additional Language Presets...">>, Rule(60) >>

\* What main prints after its loop, the lists being ls.
SummaryFor(ls) ==
    IF program = "gender"
    THEN << Rule(70),
            <<"\\nGenerated ">> \o NatRepr(Len(Concat(ls)))
                \o <<" gender & voice type presets!">>,
            <<"  - Male Voices: ">> \o NatRepr(Len(ls[1])),
            <<"  - Female Voices: ">> \o NatRepr(Len(ls[2])),
            <<"  - Child Voices: ">> \o NatRepr(Len(ls[3])),
            <<"  - Mixed Ensembles: ">> \o NatRepr(Len(ls[4])),
            <<"  - Non-Binary: ">> \o NatRepr(Len(ls[5])),
            <<"\\nGender Balance Controls:">>,
            <<"  - All ensemble presets include voice_type distribution">>,
            <<"  - gender_balance parameter (male/female percentages)">>,
            <<"  - Proper vocal ranges for each voice type">>,
            <<"  - Female bass vs Male bass formant differences">>,
            <<"\\nLocation: ">> \o preset_dir >>
    ELSE << Rule(60),
            <<"\\nAdded ">> \o NatRepr(Len(Concat(ls))) \o <<" additional presets!">> >>

Summary == SummaryFor(lists)

\* Mutant of MainBegin: main starts while list elements are still to be
\* evaluated.
MainBeginDuringImport ==
    /\ pc = "import"
    /\ stdout' = stdout \o Banner
    /\ idx' = 1
    /\ pc' = "loop"
    /\ UNCHANGED <<program, literals, lists, exc, clock, disk, disk0, others>>

\* main up to its loop: the banner is printed and the batch assembled.
MainBegin ==
    /\ pc = "import"
    /\ NextList = 0
    /\ stdout' = stdout \o Banner
    /\ idx' = 1
    /\ pc' = "loop"
    /\ UNCHANGED <<program, literals, lists, exc, clock, disk, disk0, others>>

\* Mutant of SavePreset: the record is serialized before the file is
\* opened, so a record that cannot be serialized leaves the file alone.
SavePresetDumpsFirst ==
    /\ pc = "loop"
    /\ idx <= Len(all_presets)
    /\ LET preset == all_presets[idx]
           path == filepath(preset, preset_dir)
       IN \E io \in {"ok", "open fails", "write fails"} :
            CASE io = "open fails" ->
                    /\ Raise("OSError")
                    /\ UNCHANGED <<disk, stdout, idx>>
              [] io = "write fails" ->
                    /\ \E left \in {"empty", "partial"} :
                          disk' = WriteFile(disk, path, File(left, NoDoc))
                    /\ Raise("OSError")
                    /\ UNCHANGED <<stdout, idx>>
              [] io = "ok" /\ ~Serializable(preset) ->
                    /\ Raise("TypeError")
                    /\ UNCHANGED <<disk, stdout, idx>>
              [] io = "ok" /\ Serializable(preset) ->
                    /\ disk' = WriteFile(disk, path, File("json", JsonEncode(preset)))
                    /\ stdout' = Append(stdout, CreatedLine(preset))
                    /\ idx' = idx + 1
                    /\ UNCHANGED <<pc, exc>>
    /\ UNCHANGED <<program, literals, lists, clock, disk0, others>>

\* One iteration of main's loop, save_preset(preset, preset_dir):
\*   open(filepath, 'w') creates or empties the file, or fails (OSError);
\*   json.dump writes the document, or fails after the open: with
\*   TypeError when the preset is not serializable, with OSError when the
\*   write fails, leaving the file empty or with the beginning of a
\*   document; then the confirmation line is printed.
SavePreset ==
    /\ pc = "loop"
    /\ idx <= Len(all_presets)
    /\ LET preset == all_presets[idx]
           path == filepath(preset, preset_dir)
       IN \E io \in {"ok", "open fails", "write fails"} :
            CASE io = "open fails" ->
                    /\ Raise("OSError")
                    /\ UNCHANGED <<disk, stdout, idx>>
              [] io = "write fails" ->
                    /\ \E left \in {"empty", "partial"} :
                          disk' = WriteFile(disk, path, File(left, NoDoc))
                    /\ Raise("OSError")
                    /\ UNCHANGED <<stdout, idx>>
              [] io = "ok" /\ ~Serializable(preset) ->
                    /\ disk' = WriteFile(disk, path, File("partial", NoDoc))
                    /\ Raise("TypeError")
                    /\ UNCHANGED <<stdout, idx>>
              [] io = "ok" /\ Serializable(preset) ->
                    /\ disk' = WriteFile(disk, path, File("json", JsonEncode(preset)))
                    /\ stdout' = Append(stdout, CreatedLine(preset))
                    /\ idx' = idx + 1
                    /\ UNCHANGED <<pc, exc>>
    /\ UNCHANGED <<program, literals, lists, clock, disk0, others>>

\* Mutant of MainEnd: the loop is left before its last iteration.
MainEndEarly ==
    /\ pc = "loop"
    /\ idx >= Len(all_presets)
    /\ stdout' = stdout \o Summary
    /\ pc' = "done"
    /\ UNCHANGED <<program, literals, lists, idx, exc, clock, disk, disk0, others>>

\* main after its loop: the summary; the script ends.
MainEnd ==
    /\ pc = "loop"
    /\ idx > Len(all_presets)
    /\ stdout' = stdout \o Summary
    /\ pc' = "done"
    /\ UNCHANGED <<program, literals, lists, idx, exc, clock, disk, disk0, others>>

Next == CreatePreset \/ MainBegin \/ SavePreset \/ MainEnd

Spec == Init /\ [][Next]_vars

SpecAdditional == InitAdditional /\ [][Next]_vars

SpecAssembly == InitAssembly /\ [][Next]_vars

\* The directory the first of two successive runs finds.
FirstDirectory == UsedDirectory(<<"a", "_", "b">>)

\* The calls the catalogs of the successive runs draw from.
RerunCalls == {call_defaults, call_empty, male_literal_1}

\* Either script over a catalog of at most MaxBatch calls.
InitRerun ==
    \E c \in CallSeqs(RerunCalls, MaxBatch) \ {<<>>} :
        \/ Start("gender", GenderLists(c), FirstDirectory)
        \/ Start("additional", <<c>>, FirstDirectory)

\* The script is started again once its first run has completed: a new
\* process, which finds the directory as the first run left it and the
\* wall clock where it has got to.
Rerun ==
    /\ pc = "done"
    /\ disk0 = FirstDirectory
    /\ lists' = [g \in 1..Len(literals) |-> <<>>]
    /\ idx' = 0
    /\ pc' = "import"
    /\ stdout' = <<>>
    /\ disk0' = disk
    /\ UNCHANGED <<program, literals, exc, clock, disk, others>>

NextRerun == Next \/ Rerun

SpecRerun == InitRerun /\ [][NextRerun]_vars

\* Either script over its own catalog, up to the point where main has its
\* batch and is about to write it: what the batch holds does not depend on
\* the writes.
InitCatalog ==
    \/ Start("gender", gender_literals, EmptyDirectory)
    \/ Start("additional", <<additional_literals>>, EmptyDirectory)

NextCatalog == CreatePreset \/ MainBegin

SpecCatalog == InitCatalog /\ [][NextCatalog]_vars

(***************************************************************************)
(* Two runs of one script in the same directory                            *)
(*                                                                         *)
(* save_preset is three steps to another process: open(filepath, 'w')      *)
(* creates or empties the file; the document, smaller than the buffer of   *)
(* the file object, is written at offset 0 when the with-block closes the  *)
(* file; then the line is printed.  Neither script takes a lock.           *)
(***************************************************************************)
\* Mutant of DumpOver: a file that another process has filled is kept.
DumpKeepsFirst(existing, doc) ==
    IF existing.kind = "empty" THEN {File("json", doc)} ELSE {existing}

\* What the file may hold once doc is written at its offset 0.  A file
\* that is still as the open left it, or that holds this very document,
\* holds doc.  Otherwise another process has written since the open: doc
\* replaces the beginning of that content, which leaves doc when doc is at
\* least as long and doc followed by the end of the other content when it
\* is shorter (kind "mixed").  The length of a document is not modelled
\* (isoformat() leaves out the microseconds when they are 0), so both
\* outcomes are possible.
DumpOver(existing, doc) ==
    IF existing.kind = "empty" \/ existing = File("json", doc)
    THEN {File("json", doc)}
    ELSE {File("json", doc), File("mixed", NoDoc)}

\* The history after run r has completed a write of path; found is the
\* file as the write found it.
Noted(path, r, found) ==
    [last |-> [p \in DOMAIN race.last \cup {path} |->
                  IF p = path THEN r ELSE race.last[p]],
     overlapped |-> IF found.kind = "empty" THEN race.overlapped
                    ELSE race.overlapped \cup {path}]

\* A second run at its start.
PeerStart ==
    [pc |-> "import", lists |-> [g \in 1..Len(literals) |-> <<>>], idx |-> 0,
     exc |-> "none", stdout |-> <<>>]

\* The batch of the second run.
peer_presets == Concat(peer.lists)

\* The calls of the catalog both runs work on: two identifiers.
ConcurrentCatalog == <<call_defaults, call_empty>>

\* Two runs of generate_gender_presets.py over one catalog, started
\* together.
InitConcurrent ==
    /\ StartRun("gender", GenderLists(ConcurrentCatalog), UsedDirectory(<<"a", "_", "b">>))
    /\ peer = PeerStart
    /\ race = NoRace

\* save_preset of the first run up to the open.
OpenPreset ==
    /\ pc = "loop"
    /\ idx <= Len(all_presets)
    /\ \E io \in {"ok", "open fails"} :
          IF io = "ok"
          THEN /\ disk' = WriteFile(disk, filepath(all_presets[idx], preset_dir),
                                    File("empty", NoDoc))
               /\ pc' = "open"
               /\ UNCHANGED exc
          ELSE /\ Raise("OSError")
               /\ UNCHANGED disk
    /\ UNCHANGED <<program, literals, lists, idx, clock, disk0, stdout, others>>

\* save_preset of the first run from json.dump on.
DumpPreset ==
    /\ pc = "open"
    /\ LET preset == all_presets[idx]
           path == filepath(preset, preset_dir)
       IN \E io \in {"ok", "write fails"} :
            CASE io = "write fails" ->
                    /\ \E left \in {disk[path], File("partial", NoDoc)} :
                          disk' = WriteFile(disk, path, left)
                    /\ Raise("OSError")
                    /\ UNCHANGED <<stdout, idx, race>>
              [] io = "ok" /\ ~Serializable(preset) ->
                    /\ disk' = WriteFile(disk, path, File("partial", NoDoc))
                    /\ Raise("TypeError")
                    /\ UNCHANGED <<stdout, idx, race>>
              [] io = "ok" /\ Serializable(preset) ->
                    /\ \E file \in DumpOver(disk[path], JsonEncode(preset)) :
                          disk' = WriteFile(disk, path, file)
                    /\ race' = Noted(path, 1, disk[path])
                    /\ stdout' = Append(stdout, CreatedLine(preset))
                    /\ idx' = idx + 1
                    /\ pc' = "loop"
                    /\ UNCHANGED exc
    /\ UNCHANGED <<program, literals, lists, clock, disk0, peer>>

\* What the first run leaves alone when the second takes a step that does
\* not touch the directory.
run1 == <<program, literals, lists, idx, pc, exc, disk0, stdout>>

\* The second run evaluates the next element of a list literal.
PeerCreatePreset ==
    /\ peer.pc = "import"
    /\ NextListOf(peer.lists) # 0
    /\ LET g == NextListOf(peer.lists)
           call == literals[g][Len(peer.lists[g]) + 1]
       IN IF ~Binds(IF program = "gender" THEN GenderParams ELSE AdditionalParams, call)
          THEN /\ peer' = [peer EXCEPT !.pc = "raised", !.exc = "TypeError"]
               /\ UNCHANGED clock
          ELSE \E now1 \in clock..MaxClock : \E now2 \in now1..MaxClock :
                 /\ peer' = [peer EXCEPT !.lists[g] =
                               Append(@, IF program = "gender"
                                         THEN create_preset(call, now1, now2)
                                         ELSE additional_create_preset(call, now1, now2))]
                 /\ clock' = now2
    /\ UNCHANGED <<run1, disk, race>>

\* main of the second run up to its loop.
PeerMainBegin ==
    /\ peer.pc = "import"
    /\ NextListOf(peer.lists) = 0
    /\ peer' = [peer EXCEPT !.stdout = @ \o Banner, !.idx = 1, !.pc = "loop"]
    /\ UNCHANGED <<run1, clock, disk, race>>

\* save_preset of the second run up to the open.
PeerOpenPreset ==
    /\ peer.pc = "loop"
    /\ peer.idx <= Len(peer_presets)
    /\ \E io \in {"ok", "open fails"} :
          IF io = "ok"
          THEN /\ disk' = WriteFile(disk, filepath(peer_presets[peer.idx], preset_dir),
                                    File("empty", NoDoc))
               /\ peer' = [peer EXCEPT !.pc = "open"]
          ELSE /\ peer' = [peer EXCEPT !.pc = "raised", !.exc = "OSError"]
               /\ UNCHANGED disk
    /\ UNCHANGED <<run1, clock, race>>

\* save_preset of the second run from json.dump on.
PeerDumpPreset ==
    /\ peer.pc = "open"
    /\ LET preset == peer_presets[peer.idx]
           path == filepath(preset, preset_dir)
       IN \E io \in {"ok", "write fails"} :
            CASE io = "write fails" ->
                    /\ \E left \in {disk[path], File("partial", NoDoc)} :
                          disk' = WriteFile(disk, path, left)
                    /\ peer' = [peer EXCEPT !.pc = "raised", !.exc = "OSError"]
                    /\ UNCHANGED race
              [] io = "ok" /\ ~Serializable(preset) ->
                    /\ disk' = WriteFile(disk, path, File("partial", NoDoc))
                    /\ peer' = [peer EXCEPT !.pc = "raised", !.exc = "TypeError"]
                    /\ UNCHANGED race
              [] io = "ok" /\ Serializable(preset) ->
                    /\ \E file \in DumpOver(disk[path], JsonEncode(preset)) :
                          disk' = WriteFile(disk, path, file)
                    /\ race' = Noted(path, 2, disk[path])
                    /\ peer' = [peer EXCEPT !.stdout = Append(@, CreatedLine(preset)),
                                            !.idx = @ + 1, !.pc = "loop"]
    /\ UNCHANGED <<run1, clock>>

\* main of the second run after its loop.
PeerMainEnd ==
    /\ peer.pc = "loop"
    /\ peer.idx > Len(peer_presets)
    /\ peer' = [peer EXCEPT !.stdout = @ \o SummaryFor(peer.lists), !.pc = "done"]
    /\ UNCHANGED <<run1, clock, disk, race>>

NextConcurrent ==
    \/ CreatePreset \/ MainBegin \/ OpenPreset \/ DumpPreset \/ MainEnd
    \/ PeerCreatePreset \/ PeerMainBegin \/ PeerOpenPreset \/ PeerDumpPreset
    \/ PeerMainEnd

SpecConcurrent == InitConcurrent /\ [][NextConcurrent]_vars


(***************************************************************************)
(* Vocabulary of the properties                                            *)
(***************************************************************************)
\* The 23 scalar fields of "parameters".
ScalarFields ==
    {"num_voices", "master_gain", "language", "lyrics", "synthesis_method",
     "formant_mix", "subharmonic_mix", "stereo_width", "vibrato_rate",
     "vibrato_depth", "reverb_mix", "reverb_size", "attack_time", "release_time",
     "enable_anti_aliasing", "enable_spectral_enhancement", "oversampling_factor",
     "pitch_variation", "timing_variation", "formant_variation", "breathiness",
     "warmth", "brightness"}

\* The naming rule: every space and every '/' of the name becomes '_', and
\* the extension follows.
Identifier(name) ==
    [k \in 1..(Len(name) + Len(Extension)) |->
        IF k > Len(name) THEN Extension[k - Len(name)]
        ELSE IF name[k] \in {" ", "/"} THEN "_" ELSE name[k]]

MetadataOf(preset) == Get(preset, S("metadata"))

ParametersOf(preset) == Get(preset, S("parameters"))

NameOf(preset) == Get(MetadataOf(preset), S("name"))

\* The path the i-th entry of the batch is written to.
PathOf(i) == filepath(all_presets[i], preset_dir)

\* Main's loop has been entered.
InMain == idx >= 1

\* The entries of the batch whose write has completed.
Written == IF InMain THEN 1..(idx - 1) ELSE {}

\* The confirmation lines of the first n entries of the batch.
Confirmations(n) == [k \in 1..n |-> CreatedLine(all_presets[k])]

\* The last entry among the first n of the batch that is written to path.
LastAt(path, n) ==
    CHOOSE i \in 1..n : PathOf(i) = path /\ \A j \in (i + 1)..n : PathOf(j) # path

\* The field of the record that holds the value supplied for parameter p.
FieldOf(preset, p) ==
    CASE p \in {"name", "description", "tags"} -> <<MetadataOf(preset), p>>
      [] p = "attack" -> <<ParametersOf(preset), "attack_time">>
      [] p = "release" -> <<ParametersOf(preset), "release_time">>
      [] OTHER -> <<ParametersOf(preset), p>>

\* Values json.load can give back: str, int, float, bool, None, lists of
\* such values and dicts from str to such values.
RECURSIVE JsonNative(_)
JsonNative(v) ==
    CASE v.t \in {"NoneType", "bool", "int", "float", "str"} -> TRUE
      [] v.t = "list" -> \A k \in 1..Len(v.items) : JsonNative(v.items[k])
      [] v.t = "dict" ->
            \A k \in 1..Len(v.pairs) :
               v.pairs[k][1].t = "str" /\ JsonNative(v.pairs[k][2])
      [] OTHER -> FALSE

\* The value of member name of a JSON object.
Member(doc, name) ==
    doc.members[CHOOSE k \in 1..Len(doc.members) : doc.members[k][1] = <<name>>][2]

(***************************************************************************)
(* Properties                                                              *)
(***************************************************************************)

\* C1: in every record create_preset returns, the key set of "parameters"
\* is the 23 scalar fields, plus voice_types iff a voice_types argument was
\* supplied, plus gender_balance iff a gender_balance argument was
\* supplied, and metadata.name is the name argument.
C1_ParameterKeysIffSupplied ==
    \A g \in 1..Len(lists) : \A k \in 1..Len(lists[g]) :
        LET call == literals[g][k]
            preset == lists[g][k]
        IN /\ Keys(ParametersOf(preset))
                 = ScalarFields \cup (DOMAIN call \cap {"voice_types", "gender_balance"})
           /\ NameOf(preset) = call.name

\* C2: when two distinct entries of a batch derive the same identifier and
\* the run completes, nothing but the banner, one confirmation per entry
\* and the summary was printed, no exception was raised, and the artifact
\* under every identifier is the document of the last entry that derives
\* it.
C2_LastWriteWins ==
    pc = "done" =>
        /\ exc = "none"
        /\ stdout = Banner \o Confirmations(Len(all_presets)) \o Summary
        /\ \A i \in 1..Len(all_presets) :
              disk[PathOf(i)]
                 = File("json", JsonEncode(all_presets[LastAt(PathOf(i), Len(all_presets))]))

\* A completed run in which an earlier and a later entry with different
\* names derived the same identifier, and the artifact is not the earlier
\* entry's document.
C2_Witness ==
    /\ pc = "done"
    /\ \E i \in 1..Len(all_presets) : \E j \in (i + 1)..Len(all_presets) :
          /\ PathOf(i) = PathOf(j)
          /\ NameOf(all_presets[i]) # NameOf(all_presets[j])
          /\ disk[PathOf(i)] # File("json", JsonEncode(all_presets[i]))

\* C3: the identifier save_preset derives depends on the name only, and it
\* is the name with every space and every '/' replaced by '_', followed by
\* the extension .choirv2.
C3_IdentifierFromName ==
    \A i \in 1..Len(all_presets) :
        /\ filename(all_presets[i]) = Identifier(NameOf(all_presets[i]).s)
        /\ \A j \in 1..Len(all_presets) :
              NameOf(all_presets[i]) = NameOf(all_presets[j])
                 => filename(all_presets[i]) = filename(all_presets[j])
        /\ i \in Written => os_path_join(preset_dir, Identifier(NameOf(all_presets[i]).s))
                               \in DOMAIN disk

\* Two different records of one name, which has a space and a '/', both
\* written.
C3_Witness ==
    /\ pc = "done"
    /\ \E i \in Written : \E j \in Written :
          /\ all_presets[i] # all_presets[j]
          /\ NameOf(all_presets[i]) = NameOf(all_presets[j])
          /\ \E k \in 1..Len(NameOf(all_presets[i]).s) : NameOf(all_presets[i]).s[k] = " "
          /\ \E k \in 1..Len(NameOf(all_presets[i]).s) : NameOf(all_presets[i]).s[k] = "/"

\* C4 as stated: every record create_preset returns is encoded by
\* json.dump, and decoding the document gives a record equal to it.
C4_RoundTripOfEveryRecord ==
    \A i \in 1..Len(all_presets) :
        /\ Serializable(all_presets[i])
        /\ PyEq(JsonDecode(JsonEncode(all_presets[i])), all_presets[i])

\* C4 as amended: every record create_preset returns whose values are
\* strs, ints, floats, bools, None, lists and dicts with str keys is
\* encoded by json.dump, decoding the document gives a record equal to it
\* in metadata, in every parameter with the nested maps and in both flags,
\* and so does decoding the artifact a completed run leaves for it.  (A
\* record is examined when create_preset has returned it, as the last
\* element built; an artifact when the run is complete.)
C4_RoundTripOfJsonValues ==
    /\ (pc = "import" /\ all_presets # <<>>) =>
          LET preset == all_presets[Len(all_presets)]
          IN JsonNative(preset) =>
                /\ Serializable(preset)
                /\ LET back == JsonDecode(JsonEncode(preset))
                   IN /\ PyEq(back, preset)
                      /\ \A f \in {"metadata", "parameters", "is_factory", "is_read_only"} :
                            PyEq(Get(back, S(f)), Get(preset, S(f)))
    /\ pc = "done" =>
          \A i \in 1..Len(all_presets) :
             (JsonNative(all_presets[i]) /\ LastAt(PathOf(i), Len(all_presets)) = i)
                => /\ disk[PathOf(i)].kind = "json"
                   /\ PyEq(JsonDecode(disk[PathOf(i)].doc), all_presets[i])

\* A completed run has left the artifact of a record that carries a
\* nested voice_types map and the artifact of a record that carries a
\* nested gender_balance map and a description with a backslash.
C4_Witness ==
    /\ pc = "done"
    /\ \E i \in 1..Len(all_presets) :
          /\ JsonNative(all_presets[i])
          /\ LastAt(PathOf(i), Len(all_presets)) = i
          /\ HasKey(ParametersOf(all_presets[i]), S("voice_types"))
    /\ \E i \in 1..Len(all_presets) :
          /\ JsonNative(all_presets[i])
          /\ LastAt(PathOf(i), Len(all_presets)) = i
          /\ HasKey(ParametersOf(all_presets[i]), S("gender_balance"))
          /\ "\\" \in {Get(MetadataOf(all_presets[i]), S("description")).s[k] :
                         k \in 1..Len(Get(MetadataOf(all_presets[i]), S("description")).s)}

\* C5: is_factory and is_read_only are true in every record either
\* create_preset returns and in every artifact a run writes.
C5_ProvenanceFlagsTrue ==
    /\ \A i \in 1..Len(all_presets) :
          /\ Get(all_presets[i], S("is_factory")) = PyBool(TRUE)
          /\ Get(all_presets[i], S("is_read_only")) = PyBool(TRUE)
    /\ \A i \in Written :
          disk[PathOf(i)].kind = "json" =>
             /\ Member(disk[PathOf(i)].doc, "is_factory") = JLit("true")
             /\ Member(disk[PathOf(i)].doc, "is_read_only") = JLit("true")

\* A completed run of several entries.
C5_Witness ==
    /\ pc = "done"
    /\ Len(all_presets) >= 2
    /\ \A i \in Written : disk[PathOf(i)].kind = "json"

\* C6: once a write of main's loop has failed, at entry idx, the run is
\* over with the exception: the output is the banner and the confirmations
\* of the entries before idx (no summary), the entries before idx still
\* have their artifacts, those stored under another identifier than the
\* failed one's with the document last written, and no file other than
\* theirs and the failed one's differs from what the run found.
C6_FailureEndsTheRun ==
    (exc # "none" /\ InMain) =>
        /\ pc = "raised"
        /\ idx <= Len(all_presets)
        /\ stdout = Banner \o Confirmations(idx - 1)
        /\ \A i \in 1..(idx - 1) :
              /\ PathOf(i) \in DOMAIN disk
              /\ PathOf(i) # PathOf(idx) =>
                    disk[PathOf(i)]
                       = File("json", JsonEncode(all_presets[LastAt(PathOf(i), idx - 1)]))
        /\ \A p \in DOMAIN disk :
              p \notin {PathOf(i) : i \in 1..idx} => p \in DOMAIN disk0 /\ disk[p] = disk0[p]
        /\ \A i \in (idx + 1)..Len(all_presets) :
              PathOf(i) \notin {PathOf(j) : j \in 1..idx} =>
                 \/ PathOf(i) \notin DOMAIN disk
                 \/ PathOf(i) \in DOMAIN disk0 /\ disk[PathOf(i)] = disk0[PathOf(i)]

\* The write of the second entry failed with OSError after the open: its
\* file is left empty or partial, the first entry's artifact is in place
\* under another identifier.
C6_Witness ==
    /\ exc = "OSError"
    /\ pc = "raised"
    /\ idx = 2
    /\ PathOf(1) # PathOf(2)
    /\ disk[PathOf(1)].kind = "json"
    /\ PathOf(2) \in DOMAIN disk
    /\ disk[PathOf(2)].kind \in {"empty", "partial"}

\* C7: in every record create_preset returns, metadata.created_date and
\* metadata.modified_date are identical.
C7_DatesIdentical ==
    \A i \in 1..Len(all_presets) :
        Get(MetadataOf(all_presets[i]), S("created_date"))
           = Get(MetadataOf(all_presets[i]), S("modified_date"))

\* C8: a completed run of additional_presets.py that found the directory
\* empty leaves exactly 7 artifacts, one per catalog entry, each the
\* document of its entry under the identifier the naming rule gives its
\* name.
C8_SevenArtifacts ==
    (pc = "done" /\ disk0 = EmptyDirectory) =>
        /\ Len(all_presets) = 7
        /\ Cardinality(DOMAIN disk) = 7
        /\ DOMAIN disk
              = {os_path_join(preset_dir, Identifier(additional_literals[k].name.s)) :
                    k \in 1..7}
        /\ \A k \in 1..7 :
              /\ NameOf(all_presets[k]) = additional_literals[k].name
              /\ disk[os_path_join(preset_dir, Identifier(additional_literals[k].name.s))]
                    = File("json", JsonEncode(all_presets[k]))

\* A completed run of the 7-entry catalog in a directory found empty.
C8_Witness ==
    /\ pc = "done"
    /\ disk0 = EmptyDirectory
    /\ program = "additional"
    /\ Len(literals[1]) = 7

\* The identifier of "Male 1: Bass".
Male_1_Bass_Identifier ==
    <<"M", "a", "l", "e", "_", "1", ":", "_", "B", "a", "s", "s">> \o Extension

\* C9: a record built with name "Male 1: Bass", num_voices=4, warmth=70,
\* brightness=20 has these three parameter values, and save_preset stores
\* it under Male_1:_Bass.choirv2.
C9_Male1Bass ==
    \A g \in 1..Len(lists) : \A k \in 1..Len(lists[g]) :
        LET call == literals[g][k]
            preset == lists[g][k]
        IN (/\ call.name = PyStr(<<"M", "a", "l", "e", " ", "1", ":", " ", "B", "a", "s", "s">>)
            /\ {"num_voices", "warmth", "brightness"} \subseteq DOMAIN call
            /\ call.num_voices = PyInt(4)
            /\ call.warmth = PyInt(70)
            /\ call.brightness = PyInt(20))
           => /\ PyEq(Get(ParametersOf(preset), S("num_voices")), PyInt(4))
              /\ PyEq(Get(ParametersOf(preset), S("warmth")), PyFloat(700))
              /\ PyEq(Get(ParametersOf(preset), S("brightness")), PyFloat(200))
              /\ filename(preset) = Male_1_Bass_Identifier
              /\ \A i \in Written :
                    all_presets[i] = preset =>
                       os_path_join(preset_dir, Male_1_Bass_Identifier) \in DOMAIN disk

\* The record of "Male 1: Bass" has been built and written.
C9_Witness ==
    \E i \in Written :
        /\ NameOf(all_presets[i])
              = PyStr(<<"M", "a", "l", "e", " ", "1", ":", " ", "B", "a", "s", "s">>)
        /\ disk[os_path_join(preset_dir, Male_1_Bass_Identifier)]
              = File("json", JsonEncode(all_presets[i]))

\* C10: create_preset validates nothing: every call that binds returns a
\* record, and every value supplied is the value of the corresponding
\* field of the record.
C10_SuppliedValuesVerbatim ==
    \A g \in 1..Len(lists) : \A k \in 1..Len(lists[g]) :
        LET call == literals[g][k]
            preset == lists[g][k]
        IN \A p \in DOMAIN call :
              /\ HasKey(FieldOf(preset, p)[1], S(FieldOf(preset, p)[2]))
              /\ Get(FieldOf(preset, p)[1], S(FieldOf(preset, p)[2])) = call[p]


\* The documented default of each tunable field of "parameters", in tenths.
DocumentedDefault ==
    [num_voices |-> 80, formant_mix |-> 800, subharmonic_mix |-> 200,
     stereo_width |-> 750, vibrato_rate |-> 60, vibrato_depth |-> 300,
     reverb_mix |-> 250, reverb_size |-> 500, attack_time |-> 500,
     release_time |-> 2000, pitch_variation |-> 100, timing_variation |-> 50,
     formant_variation |-> 150, breathiness |-> 100, warmth |-> 200,
     brightness |-> 500]

\* The field of "parameters" a tunable parameter of create_preset fills.
TunableField(p) ==
    CASE p = "attack" -> "attack_time" [] p = "release" -> "release_time" [] OTHER -> p

\* C11: in every record either create_preset returns, each tunable field
\* holds the argument supplied for it when one was supplied and the
\* documented default otherwise (so a record built from the five required
\* arguments alone carries every default, and a supplied argument replaces
\* its own field only), and master_gain is -3.0 whatever the arguments.
\* (A record is examined when create_preset has returned it, as the last
\* element of its list; records do not change afterwards.)
C11_DefaultsAndFixedGain ==
    \A g \in {h \in 1..Len(lists) : pc = "import" /\ lists[h] # <<>>} :
        LET k == Len(lists[g])
            call == literals[g][k]
            params == ParametersOf(lists[g][k])
        IN /\ \A p \in Tunables :
                 /\ HasKey(params, S(TunableField(p)))
                 /\ LET value == Get(params, S(TunableField(p)))
                    IN IF p \in DOMAIN call
                       THEN value = call[p]
                       ELSE /\ IsNumber(value)
                            /\ Tenths(value) = DocumentedDefault[TunableField(p)]
           /\ Get(params, S("master_gain")) = PyFloat(-30)

\* A run has built a record from the five required arguments alone and a
\* record from a call that supplies num_voices, warmth and vibrato_rate and
\* leaves brightness to its default.
C11_Witness ==
    /\ \E g \in 1..Len(lists) : \E k \in 1..Len(lists[g]) :
          /\ DOMAIN literals[g][k] = Required
          /\ Get(ParametersOf(lists[g][k]), S("num_voices")) = PyInt(8)
    /\ \E g \in 1..Len(lists) : \E k \in 1..Len(lists[g]) :
          /\ {"num_voices", "warmth", "vibrato_rate"} \subseteq DOMAIN literals[g][k]
          /\ "brightness" \notin DOMAIN literals[g][k]
          /\ Get(ParametersOf(lists[g][k]), S("warmth")) = PyInt(300)
          /\ Get(ParametersOf(lists[g][k]), S("brightness")) = PyInt(50)


\* The number of entries of the lists before list g.
RECURSIVE Offset(_)
Offset(g) == IF g = 1 THEN 0 ELSE Offset(g - 1) + Len(lists[g - 1])

\* C12: the batch of generate_gender_presets.py is the concatenation of
\* its five lists in the order male, female, child, mixed, non-binary: it
\* has one entry per list element, the j-th element of list g at position
\* Offset(g) + j (so a list keeps its order and an earlier list precedes a
\* later one); when main runs every list is complete, each element built
\* from its literal; the writes follow the batch, one confirmation per
\* entry written; and no call is refused or dropped for a name that
\* occurs twice: only a failure of the file system ends a run early.
C12_BatchIsConcatenation ==
    /\ Len(literals) = 5
    /\ Len(all_presets) = Offset(5) + Len(lists[5])
    /\ \A g \in 1..5 : \A j \in 1..Len(lists[g]) :
          /\ all_presets[Offset(g) + j] = lists[g][j]
          /\ NameOf(lists[g][j]) = literals[g][j].name
          /\ (Offset(g) + j) \in Written =>
                stdout[Len(Banner) + Offset(g) + j] = CreatedLine(lists[g][j])
    /\ InMain => \A g \in 1..5 : Len(lists[g]) = Len(literals[g])
    /\ exc \in {"none", "OSError"}
    /\ pc = "done" => Written = 1..Len(all_presets)

\* A completed run whose second and fourth list hold one element each,
\* two records of one name that differ by their dates: both are in the
\* batch, the second list's first, and both were written.
C12_Witness ==
    /\ pc = "done"
    /\ Len(lists[2]) = 1
    /\ Len(lists[4]) = 1
    /\ NameOf(lists[2][1]) = NameOf(lists[4][1])
    /\ lists[2][1] # lists[4][1]
    /\ all_presets = <<lists[2][1], lists[4][1]>>
    /\ Len(stdout) = Len(Banner) + 2 + Len(Summary)


\* The number of elements of the script's list literals.
RECURSIVE CatalogSizeTo(_)
CatalogSizeTo(g) == IF g = 0 THEN 0 ELSE CatalogSizeTo(g - 1) + Len(literals[g])

CatalogSize == CatalogSizeTo(Len(literals))

\* The line of the summary that states the count n.
CountLine(n) ==
    IF program = "gender"
    THEN <<"\\nGenerated ">> \o NatRepr(n) \o <<" gender & voice type presets!">>
    ELSE <<"\\nAdded ">> \o NatRepr(n) \o <<" additional presets!">>

\* C13: once main runs, the output after the banner is one confirmation
\* line per completed write, in write order, and nothing for an entry
\* whose write has not completed (the entry being written, or the one
\* whose write failed); the artifact of every confirmed entry is in the
\* directory, complete unless a later write to its path replaced it; and
\* in a completed run the number of confirmation lines, the count of the
\* summary, the number of catalog entries and the number of writes agree.
C13_OneConfirmationPerWrite ==
    InMain =>
        LET n == idx - 1
            lines == SubSeq(stdout, Len(Banner) + 1, Len(stdout))
        IN /\ SubSeq(stdout, 1, Len(Banner)) = Banner
           /\ n <= Len(all_presets)
           /\ SubSeq(lines, 1, n) = [k \in 1..n |-> <<"Created: ">> \o NameOf(all_presets[k]).s]
           /\ pc # "done" => Len(lines) = n
           /\ \A i \in 1..n :
                 /\ PathOf(i) \in DOMAIN disk
                 /\ (\A j \in (i + 1)..Len(all_presets) :
                        j <= idx => PathOf(j) # PathOf(i))
                       => disk[PathOf(i)] = File("json", JsonEncode(all_presets[i]))
           /\ pc = "done" =>
                 /\ n = CatalogSize
                 /\ Len(lines) = n + Len(Summary)
                 /\ lines[n + 2] = CountLine(CatalogSize)

\* A completed run of the gender script over two entries of different
\* names and identifiers: two confirmation lines, then the summary.
C13_Witness ==
    /\ pc = "done"
    /\ program = "gender"
    /\ CatalogSize = 2
    /\ PathOf(1) # PathOf(2)
    /\ stdout[Len(Banner) + 1] = CreatedLine(all_presets[1])
    /\ stdout[Len(Banner) + 2] = CreatedLine(all_presets[2])
    /\ stdout[Len(Banner) + 4] = CountLine(2)


\* Every list of the script holds a record for each element of its literal.
AllBuilt == \A g \in 1..Len(literals) : Len(lists[g]) = Len(literals[g])

\* C14 as stated: the Builder call of a record comes after the Writer call
\* of the record before it in the batch, so whenever a record has been
\* built, every record before it in the batch has been written.
C14_BuildThenWriteEachRecord ==
    \A i \in 2..Len(all_presets) : (i - 1) \in Written

\* C14 as amended: a run first performs the Builder calls, one per step
\* and each adding its record at the end of the batch, and only when the
\* whole batch is built performs the Writer calls, one per step and each
\* for the next record of the batch; a step never does both, no Builder
\* call follows the first Writer call, and a Writer call touches the
\* artifact of its record only.
C14_BuildAllThenWriteEach ==
    [][/\ lists' # lists =>
             /\ pc = "import" /\ idx = 0 /\ idx' = 0
             /\ disk' = disk /\ stdout' = stdout
             /\ Len(all_presets') = Len(all_presets) + 1
             /\ SubSeq(all_presets', 1, Len(all_presets)) = all_presets
       /\ (disk' # disk \/ idx' # idx) =>
             /\ lists' = lists
             /\ AllBuilt
       /\ disk' # disk =>
             /\ pc = "loop"
             /\ idx \in 1..Len(all_presets)
             /\ \A p \in DOMAIN disk' : p # PathOf(idx) => p \in DOMAIN disk /\ disk'[p] = disk[p]
             /\ idx' \in {idx, idx + 1}
       /\ idx' # idx =>
             /\ idx' = idx + 1
             /\ idx >= 1 => disk'[PathOf(idx)] = File("json", JsonEncode(all_presets[idx]))
      ]_vars

\* Both records of a batch of two are built, the first is written and the
\* second is not yet.
C14_Witness ==
    /\ pc = "loop"
    /\ idx = 2
    /\ Len(all_presets) = 2
    /\ disk[PathOf(1)] = File("json", JsonEncode(all_presets[1]))
    /\ PathOf(2) \notin DOMAIN disk


\* The path the i-th entry of the second run's batch is written to.
PeerPathOf(i) == filepath(peer_presets[i], preset_dir)

\* Both runs have completed.
BothDone == pc = "done" /\ peer.pc = "done"

\* The paths both runs write.
WrittenByBoth ==
    {PathOf(i) : i \in 1..Len(all_presets)}
        \cap {PeerPathOf(i) : i \in 1..Len(peer_presets)}

\* The document of the last record written to path by the run that wrote
\* path last.
LastDocument(path) ==
    IF race.last[path] = 1
    THEN JsonEncode(all_presets[LastAt(path, Len(all_presets))])
    ELSE JsonEncode(peer_presets[
            CHOOSE i \in 1..Len(peer_presets) :
               /\ PeerPathOf(i) = path
               /\ \A j \in (i + 1)..Len(peer_presets) : PeerPathOf(j) # path])

\* C15 as stated: when two runs in one directory have both completed,
\* every artifact both wrote is the record of the run that wrote it last.
C15_LastWriterWins ==
    BothDone =>
        \A p \in WrittenByBoth : disk[p] = File("json", LastDocument(p))

\* C15 as amended: when two runs in one directory have both completed,
\* every artifact both wrote is the record of the run that wrote it last
\* if no write of it found content another run had put there since the
\* writer opened it; if two writes of it overlapped in that way, the
\* artifact is that record or a mix of the two runs' documents.
C15_LastWriterWinsUnlessOverlapped ==
    BothDone =>
        \A p \in WrittenByBoth :
            /\ p \in DOMAIN race.last
            /\ p \notin race.overlapped => disk[p] = File("json", LastDocument(p))
            /\ p \in race.overlapped =>
                  disk[p] \in {File("json", LastDocument(p)), File("mixed", NoDoc)}

\* Both runs have completed; the writes of one artifact overlapped and it
\* holds the record of the second run, which wrote it last and whose
\* record differs from the first run's; another artifact was written last
\* by the first run.
C15_Witness ==
    /\ BothDone
    /\ \E p \in WrittenByBoth : \E q \in WrittenByBoth :
          /\ p \in race.overlapped
          /\ race.last[p] = 2
          /\ disk[p] = File("json", LastDocument(p))
          /\ disk[p] # File("json", JsonEncode(all_presets[LastAt(p, Len(all_presets))]))
          /\ race.last[q] = 1


\* C16: no two entries of the batch generate_gender_presets.py writes, and
\* no two entries of the batch additional_presets.py writes, have the same
\* metadata.name; the batches have 34 and 7 entries.  (While the batch
\* grows, the record built last is compared with every record before it.)
C16_NamesUniqueInBatch ==
    LET batch == all_presets
        names == [i \in 1..Len(batch) |-> NameOf(batch[i])]
    IN /\ \A i \in 1..(Len(batch) - 1) : ~PyEq(names[i], names[Len(batch)])
       /\ InMain =>
             /\ Len(batch) = IF program = "gender" THEN 34 ELSE 7
             /\ \A i \in 1..Len(batch) : \A j \in (i + 1)..Len(batch) :
                   ~PyEq(names[i], names[j])

\* main of generate_gender_presets.py has its batch, whose first and last
\* entries are the first male and the last non-binary preset.
C16_Witness ==
    /\ pc = "loop"
    /\ program = "gender"
    /\ NameOf(all_presets[1]) = male_literal_1.name
    /\ NameOf(all_presets[Len(all_presets)]) = nonbinary_literal_4.name
    /\ Len(all_presets) > 30

\* The sum of the weights of a distribution map, in tenths.
RECURSIVE WeightSum(_)
WeightSum(pairs) ==
    IF pairs = <<>> THEN 0 ELSE Tenths(Head(pairs)[2]) + WeightSum(Tail(pairs))

\* C17: in every record a run of either script over its catalog produces,
\* a voice_types map has weights that sum to 100, and a gender_balance map
\* has exactly the keys "male" and "female" and weights that sum to 100.
\* (A record is examined when it is built, as the last of the batch, and
\* all records again when main has the batch.)
C17_DistributionsSumTo100 ==
    \A i \in {k \in 1..Len(all_presets) : InMain \/ k = Len(all_presets)} :
        LET params == ParametersOf(all_presets[i])
        IN /\ HasKey(params, S("voice_types")) =>
                 LET m == Get(params, S("voice_types"))
                 IN /\ m.t = "dict"
                    /\ \A k \in 1..Len(m.pairs) : IsNumber(m.pairs[k][2])
                    /\ WeightSum(m.pairs) = 1000
           /\ HasKey(params, S("gender_balance")) =>
                 LET m == Get(params, S("gender_balance"))
                 IN /\ m.t = "dict"
                    /\ Len(m.pairs) = 2
                    /\ {m.pairs[k][1] : k \in 1..2} = {S("male"), S("female")}
                    /\ \A k \in 1..2 : IsNumber(m.pairs[k][2])
                    /\ WeightSum(m.pairs) = 1000

\* The batch of generate_gender_presets.py is built; it holds a record
\* with a voice_types map of several labels and a gender_balance map of
\* unequal weights, and a record with a voice_types map and no
\* gender_balance map.
C17_Witness ==
    /\ pc = "loop"
    /\ \E i \in 1..Len(all_presets) :
          /\ HasKey(ParametersOf(all_presets[i]), S("voice_types"))
          /\ Len(Get(ParametersOf(all_presets[i]), S("voice_types")).pairs) >= 4
          /\ HasKey(ParametersOf(all_presets[i]), S("gender_balance"))
          /\ Get(Get(ParametersOf(all_presets[i]), S("gender_balance")), S("male")) = PyInt(40)
    /\ \E i \in 1..Len(all_presets) :
          /\ HasKey(ParametersOf(all_presets[i]), S("voice_types"))
          /\ ~HasKey(ParametersOf(all_presets[i]), S("gender_balance"))


\* The run is the second of two successive runs.
Rerunning == disk0 # FirstDirectory

\* C18: when a run that found the directory as a completed run of the
\* same script over the same catalog left it has completed, the directory
\* holds the same identifiers as it found (none added, none removed),
\* every artifact the run derives is exactly the document of the record
\* this run built last for it, whatever the earlier run had left there,
\* and every other file is as found.
C18_RerunOverwritesInPlace ==
    (Rerunning /\ pc = "done") =>
        /\ DOMAIN disk = DOMAIN disk0
        /\ \A i \in 1..Len(all_presets) :
              /\ disk0[PathOf(i)].kind = "json"
              /\ disk[PathOf(i)]
                    = File("json", JsonEncode(all_presets[LastAt(PathOf(i), Len(all_presets))]))
        /\ \A p \in DOMAIN disk :
              p \notin {PathOf(i) : i \in 1..Len(all_presets)} => disk[p] = disk0[p]

\* The second run has completed and an artifact it wrote differs from the
\* one the first run had left under the same identifier.
C18_Witness ==
    /\ Rerunning
    /\ pc = "done"
    /\ Len(all_presets) = 2
    /\ \E i \in 1..Len(all_presets) :
          /\ disk0[PathOf(i)].kind = "json"
          /\ disk0[PathOf(i)] # disk[PathOf(i)]
          /\ disk[PathOf(i)] = File("json", JsonEncode(all_presets[i]))


\* C19: a step of main's loop that ends with an exception either failed
\* at the open, with OSError and the directory untouched, or failed after
\* the open: then the file of the entry exists and is empty or holds the
\* beginning of a document (the beginning when the record could not be
\* serialized), whatever it held before, no other file has changed and no
\* line was printed.  Nothing follows the exception: no step repairs the
\* file.
C19_OpenTruncatesBeforeDump ==
    [][/\ pc # "raised"
       /\ (pc = "loop" /\ pc' = "raised") =>
             LET path == PathOf(idx)
             IN /\ stdout' = stdout /\ idx' = idx
                /\ \/ exc' = "OSError" /\ disk' = disk
                   \/ /\ path \in DOMAIN disk'
                      /\ disk'[path].kind \in {"empty", "partial"}
                      /\ \A p \in DOMAIN disk' \ {path} : p \in DOMAIN disk /\ disk'[p] = disk[p]
                /\ exc' = "TypeError" => disk'[path].kind = "partial"
      ]_vars

\* The run has ended with TypeError at an entry whose artifact the run
\* found complete in the directory: the file holds only the beginning of a
\* document now.
C19_Witness ==
    /\ pc = "raised"
    /\ exc = "TypeError"
    /\ InMain
    /\ PathOf(idx) \in DOMAIN disk0
    /\ disk0[PathOf(idx)].kind = "json"
    /\ disk[PathOf(idx)] = File("partial", NoDoc)


\* The file that holds an identifier directly in the output directory.
DirectlyIn(directory, identifier) == directory \o <<"/">> \o identifier

\* A step of main's loop is a call of save_preset for entry idx.
SaveCall == pc = "loop" /\ idx <= Len(all_presets)

\* What every call of save_preset respects: the identifier has no space
\* and no '/', the record and the other lists are as before, and no file
\* but the one of that identifier directly in the output directory is
\* created, removed or changed.
SaveFrame ==
    LET identifier == filename(all_presets[idx])
        path == DirectlyIn(preset_dir, identifier)
    IN /\ \A k \in 1..Len(identifier) : identifier[k] \notin {" ", "/"}
       /\ lists' = lists
       /\ \A p \in (DOMAIN disk \cup DOMAIN disk') \ {path} :
             p \in DOMAIN disk /\ p \in DOMAIN disk' /\ disk'[p] = disk[p]

\* C20 as stated: every call of save_preset respects the frame and
\* creates or replaces the file of its identifier: after the call the file
\* exists and holds what this call put there.
C20_EveryCallWritesOneFile ==
    [][SaveCall =>
          /\ SaveFrame
          /\ LET path == DirectlyIn(preset_dir, filename(all_presets[idx]))
             IN /\ path \in DOMAIN disk'
                /\ disk'[path] \in {File("json", JsonEncode(all_presets[idx])),
                                    File("empty", NoDoc), File("partial", NoDoc)}
      ]_vars

\* C20 as amended: every call of save_preset respects the frame; a call
\* that returns has created or replaced the file of its identifier, which
\* holds the document of the record; a call that raises has either left
\* the directory as it was (the open failed) or left that file empty or
\* with the beginning of a document.
C20_OpenedCallWritesOneFile ==
    [][SaveCall =>
          /\ SaveFrame
          /\ LET path == DirectlyIn(preset_dir, filename(all_presets[idx]))
             IN /\ idx' = idx + 1 =>
                      /\ path \in DOMAIN disk'
                      /\ disk'[path] = File("json", JsonEncode(all_presets[idx]))
                /\ idx' = idx =>
                      /\ pc' = "raised"
                      /\ \/ disk' = disk
                         \/ /\ path \in DOMAIN disk'
                            /\ disk'[path] \in {File("empty", NoDoc), File("partial", NoDoc)}
      ]_vars

\* The record of the name "/a b", which begins with a '/' and has a
\* space, is stored in the output directory under _a_b.choirv2; the file
\* of another name that the run found there is as it was.
C20_Witness ==
    /\ \E i \in Written :
          /\ NameOf(all_presets[i]) = PyStr(<<"/", "a", " ", "b">>)
          /\ disk[DirectlyIn(preset_dir, <<"_", "a", "_", "b">> \o Extension)]
                = File("json", JsonEncode(all_presets[i]))
    /\ DirectlyIn(preset_dir, <<"a", "_", "b">> \o Extension) \in DOMAIN disk0
    /\ \A p \in DOMAIN disk0 : p \in DOMAIN disk /\ disk[p] = disk0[p]

=============================================================================
